---------------------------- MODULE Spec2Model ----------------------------
(***************************************************************************)
(* A model of c-of-time's run-time glue: the hand-written ARM trampolines  *)
(* that splice custom handlers into the game (trampolines.s), the C        *)
(* dispatchers behind them (src/cot/effects.c, ground instructions, script *)
(* menus) and the example handlers they call.                              *)
(*                                                                         *)
(* The trampolines are modelled at instruction level: each one is a        *)
(* sequence of instruction records, transcribed line by line from the      *)
(* assembly, run by one interpreter (TStep) over a small ARM machine       *)
(* (registers r0-r12, sp, lr, the NZCV flags, a descending stack and the   *)
(* words of move_effect_input).  The C functions are modelled statement by *)
(* statement with a program counter.                                       *)
(***************************************************************************)
EXTENDS Integers, Sequences, FiniteSets, TLC

(***************************************************************************)
(* Bounds of the model.                                                    *)
(***************************************************************************)
\* Register width in bits.  The ARM9 has 32-bit registers; the model keeps
\* two's-complement wrap-around at a width TLC's integers can hold.
WordBits == 14
\* How many different junk values a called C function may leave in the
\* registers the calling convention lets it clobber (r1-r3, r12, lr, flags).
MaxJunk == 2
\* Entry register files differ by an offset 0..MaxVariant.
MaxVariant == 1
\* How deep hooks may fire inside handlers.
MaxNest == 1
\* The stats of a Beast Boost user range over 1..MaxStat.
MaxStat == 3

Mod == 2 ^ WordBits
Half == Mod \div 2

(***************************************************************************)
(* Machine words.                                                          *)
(***************************************************************************)
Wrap(x) == x % Mod
ToSigned(w) == IF w >= Half THEN w - Mod ELSE w

\* The NZCV flags of `cmp a, b` (a - b, result discarded).
CmpFlags(a, b) ==
    LET res == Wrap(a - b)
        sd  == ToSigned(a) - ToSigned(b)
    IN  [ N |-> res >= Half,
          Z |-> res = 0,
          C |-> a >= b,
          V |-> (sd >= Half) \/ (sd < -Half) ]

\* ARM condition codes used by the trampolines and hooks.
CondHolds(c, f) ==
    CASE c = "al" -> TRUE
      [] c = "eq" -> f.Z
      [] c = "ne" -> ~f.Z
      [] c = "ge" -> f.N = f.V
      [] c = "lt" -> f.N # f.V
      [] c = "pl" -> ~f.N
      [] c = "mi" -> f.N


(***************************************************************************)
(* The ARM machine the trampolines run on.                                 *)
(***************************************************************************)
\* Registers in push/pop order (the lowest-numbered register goes to the
\* lowest address).  sl = r10, fp = r11, ip = r12.
RegOrder == << "r0", "r1", "r2", "r3", "r4", "r5", "r6", "r7", "r8", "r9",
               "r10", "r11", "r12", "sp", "lr" >>
Regs == { RegOrder[i] : i \in 1..Len(RegOrder) }
RegNum(r) == CHOOSE i \in 1..Len(RegOrder) : RegOrder[i] = r

\* The registers of a push/pop list, in the order they are stored.
RECURSIVE InOrder(_, _)
InOrder(rs, i) ==
    IF i > Len(RegOrder) THEN << >>
    ELSE IF RegOrder[i] \in rs THEN << RegOrder[i] >> \o InOrder(rs, i + 1)
    ELSE InOrder(rs, i + 1)

\* r0-r9, r11, r12: the list both effect trampolines push and pop.
R0toR9R11R12 == { "r0", "r1", "r2", "r3", "r4", "r5", "r6", "r7", "r8", "r9",
                  "r11", "r12" }
\* r1-r12: the list TrampolineAfterApplyMoveEffect pushes and pops.
R1toR12 == { "r1", "r2", "r3", "r4", "r5", "r6", "r7", "r8", "r9", "r10",
             "r11", "r12" }
\* r3-r9, sl, fp, lr: the list of the push displaced from
\* ScriptSpecialProcessCall.
R3toR9SlFpLr == { "r3", "r4", "r5", "r6", "r7", "r8", "r9", "r10", "r11", "lr" }

\* Addresses of the words of move_effect_input (move_id, item_id,
\* out_dealt_damage), as the linker would place them.
move_effect_input == 512
move_effect_input_out_dealt_damage == move_effect_input + 8
\* reg_backup: .space 0x40, placed right before move_effect_input.
RegBackupWords == 16
reg_backup == move_effect_input - 4 * RegBackupWords
MemAddrs == { move_effect_input, move_effect_input + 4,
              move_effect_input_out_dealt_damage }
            \cup { reg_backup + 4 * k : k \in 0..(RegBackupWords - 1) }

\* Address of the i-th instruction of the running trampoline (what bl leaves
\* in lr is the address of the instruction after it).
CodeAddr(i) == 1024 + 4 * i

(***************************************************************************)
(* Instructions.  Every instruction is a record of the same shape:         *)
(*   op    the mnemonic (push, pop, mov, movi, ldrlit, str, ldr, bl, cmp,  *)
(*         cmpi, b)                                                        *)
(*   cond  the condition code ("al" when the mnemonic has none)            *)
(*   rd, rn  registers;  imm  immediate, offset or address                 *)
(*   list  the register list of push/pop                                   *)
(*   tgt   the label a b/bl goes to                                        *)
(*   phase the phase of the trampoline's state machine the instruction     *)
(*         belongs to ("" for none)                                        *)
(*   replay  TRUE for the instruction the hook's branch displaced          *)
(***************************************************************************)
Ins(op, cond, rd, rn, imm, list, tgt, phase, replay) ==
    [ op |-> op, cond |-> cond, rd |-> rd, rn |-> rn, imm |-> imm,
      list |-> list, tgt |-> tgt, phase |-> phase, replay |-> replay ]

Push(list, phase, replay)  == Ins("push", "al", "", "", 0, list, "", phase, replay)
Pop(cond, list, phase)     == Ins("pop", cond, "", "", 0, list, "", phase, FALSE)
Mov(rd, rn, phase)         == Ins("mov", "al", rd, rn, 0, {}, "", phase, FALSE)
MovI(rd, imm, phase, replay) == Ins("movi", "al", rd, "", imm, {}, "", phase, replay)
LdrLit(cond, rd, addr, phase) == Ins("ldrlit", cond, rd, "", addr, {}, "", phase, FALSE)
Str(rd, rn, off, phase)    == Ins("str", "al", rd, rn, off, {}, "", phase, FALSE)
Bl(tgt, phase)             == Ins("bl", "al", "", "", 0, {}, tgt, phase, FALSE)
CmpI(rn, imm, phase, replay) == Ins("cmpi", "al", "", rn, imm, {}, "", phase, replay)
B(cond, tgt, phase)        == Ins("b", cond, "", "", 0, {}, tgt, phase, FALSE)
LdrO(cond, rd, rn, off, phase) == Ins("ldr", cond, rd, rn, off, {}, "", phase, FALSE)
BxC(cond, rn, phase)       == Ins("bx", cond, "", rn, 0, {}, rn, phase, FALSE)


(***************************************************************************)
(* The trampolines, instruction by instruction.                            *)
(***************************************************************************)
\* cotInternalTrampolineScriptSpecialProcessCall with the branch condition
\* inverted (blt in place of bge).
SpecialProcessTrampolineInvertedBranch ==
    << CmpI("r1", 100, "DISPATCH", FALSE),
       B("lt", "CustomScriptSpecialProcessCall", "DIVERT"),
       Push(R3toR9SlFpLr, "RESTORE_AND_CONTINUE", TRUE),
       B("al", "ScriptSpecialProcessCall+4", "RESTORE_AND_CONTINUE") >>

\* cotInternalTrampolineScriptSpecialProcessCall
cotInternalTrampolineScriptSpecialProcessCall ==
    << CmpI("r1", 100, "DISPATCH", FALSE),
       B("ge", "CustomScriptSpecialProcessCall", "DIVERT"),
       Push(R3toR9SlFpLr, "RESTORE_AND_CONTINUE", TRUE),
       B("al", "ScriptSpecialProcessCall+4", "RESTORE_AND_CONTINUE") >>

\* cotInternalTrampolineApplyItemEffect with the result test inverted
\* (cmp r0, #0 in place of cmp r0, #1).
ItemTrampolineInvertedTest ==
    << Push(R0toR9R11R12, "SAVE_STATE", FALSE),
       Mov("r0", "r8", "DISPATCH"),
       Mov("r1", "r7", "DISPATCH"),
       Mov("r2", "r6", "DISPATCH"),
       Mov("r3", "r9", "DISPATCH"),
       Bl("CustomApplyItemEffect", "DISPATCH"),
       CmpI("r0", 0, "DISPATCH", FALSE),
       Pop("eq", R0toR9R11R12, ""),
       B("eq", "ApplyItemEffectJumpAddr", "DIVERT"),
       Pop("al", R0toR9R11R12, "RESTORE_AND_CONTINUE"),
       CmpI("r0", 0, "RESTORE_AND_CONTINUE", TRUE),
       B("al", "ApplyItemEffectHookAddr+4", "RESTORE_AND_CONTINUE") >>

\* cotInternalTrampolineApplyItemEffect with r12 missing from the pop on
\* the not-handled path.
ItemTrampolineShortPop ==
    << Push(R0toR9R11R12, "SAVE_STATE", FALSE),
       Mov("r0", "r8", "DISPATCH"),
       Mov("r1", "r7", "DISPATCH"),
       Mov("r2", "r6", "DISPATCH"),
       Mov("r3", "r9", "DISPATCH"),
       Bl("CustomApplyItemEffect", "DISPATCH"),
       CmpI("r0", 1, "DISPATCH", FALSE),
       Pop("eq", R0toR9R11R12, ""),
       B("eq", "ApplyItemEffectJumpAddr", "DIVERT"),
       Pop("al", R0toR9R11R12 \ { "r12" }, "RESTORE_AND_CONTINUE"),
       CmpI("r0", 0, "RESTORE_AND_CONTINUE", TRUE),
       B("al", "ApplyItemEffectHookAddr+4", "RESTORE_AND_CONTINUE") >>

\* cotInternalTrampolineApplyItemEffect
cotInternalTrampolineApplyItemEffect ==
    << Push(R0toR9R11R12, "SAVE_STATE", FALSE),
       Mov("r0", "r8", "DISPATCH"),
       Mov("r1", "r7", "DISPATCH"),
       Mov("r2", "r6", "DISPATCH"),
       Mov("r3", "r9", "DISPATCH"),
       Bl("CustomApplyItemEffect", "DISPATCH"),
       CmpI("r0", 1, "DISPATCH", FALSE),
       Pop("eq", R0toR9R11R12, ""),
       B("eq", "ApplyItemEffectJumpAddr", "DIVERT"),
       Pop("al", R0toR9R11R12, "RESTORE_AND_CONTINUE"),
       CmpI("r0", 0, "RESTORE_AND_CONTINUE", TRUE),
       B("al", "ApplyItemEffectHookAddr+4", "RESTORE_AND_CONTINUE") >>

\* cotInternalTrampolineApplyMoveEffect with the displaced mov r1, #0x1
\* replayed on the handled path as well (placed before the result test's
\* branch instead of after the final pop).
MoveTrampolineReplayOnBothPaths ==
    << Push(R0toR9R11R12, "SAVE_STATE", FALSE),
       LdrLit("al", "r10", move_effect_input, "DISPATCH"),
       Str("r6", "r10", 0, "DISPATCH"),
       Str("r7", "r10", 4, "DISPATCH"),
       MovI("r0", 0, "DISPATCH", FALSE),
       Str("r0", "r10", 8, "DISPATCH"),
       Mov("r0", "r10", "DISPATCH"),
       Mov("r1", "r9", "DISPATCH"),
       Mov("r2", "r4", "DISPATCH"),
       Mov("r3", "r8", "DISPATCH"),
       Bl("CustomApplyMoveEffect", "DISPATCH"),
       CmpI("r0", 1, "DISPATCH", FALSE),
       Pop("eq", R0toR9R11R12, ""),
       LdrLit("eq", "r10", move_effect_input_out_dealt_damage, ""),
       MovI("r1", 1, "", TRUE),
       B("eq", "ApplyMoveEffectJumpAddr", "DIVERT"),
       Pop("al", R0toR9R11R12, "RESTORE_AND_CONTINUE"),
       B("al", "ApplyMoveEffectHookAddr+4", "RESTORE_AND_CONTINUE") >>

\* cotInternalTrampolineApplyMoveEffect without the two instructions that
\* clear out_dealt_damage before the call.
MoveTrampolineWithoutClear ==
    << Push(R0toR9R11R12, "SAVE_STATE", FALSE),
       LdrLit("al", "r10", move_effect_input, "DISPATCH"),
       Str("r6", "r10", 0, "DISPATCH"),
       Str("r7", "r10", 4, "DISPATCH"),
       Mov("r0", "r10", "DISPATCH"),
       Mov("r1", "r9", "DISPATCH"),
       Mov("r2", "r4", "DISPATCH"),
       Mov("r3", "r8", "DISPATCH"),
       Bl("CustomApplyMoveEffect", "DISPATCH"),
       CmpI("r0", 1, "DISPATCH", FALSE),
       Pop("eq", R0toR9R11R12, ""),
       LdrLit("eq", "r10", move_effect_input_out_dealt_damage, ""),
       B("eq", "ApplyMoveEffectJumpAddr", "DIVERT"),
       Pop("al", R0toR9R11R12, "RESTORE_AND_CONTINUE"),
       MovI("r1", 1, "RESTORE_AND_CONTINUE", TRUE),
       B("al", "ApplyMoveEffectHookAddr+4", "RESTORE_AND_CONTINUE") >>

\* cotInternalTrampolineApplyMoveEffect
cotInternalTrampolineApplyMoveEffect ==
    << Push(R0toR9R11R12, "SAVE_STATE", FALSE),
       LdrLit("al", "r10", move_effect_input, "DISPATCH"),
       Str("r6", "r10", 0, "DISPATCH"),
       Str("r7", "r10", 4, "DISPATCH"),
       MovI("r0", 0, "DISPATCH", FALSE),
       Str("r0", "r10", 8, "DISPATCH"),
       Mov("r0", "r10", "DISPATCH"),
       Mov("r1", "r9", "DISPATCH"),
       Mov("r2", "r4", "DISPATCH"),
       Mov("r3", "r8", "DISPATCH"),
       Bl("CustomApplyMoveEffect", "DISPATCH"),
       CmpI("r0", 1, "DISPATCH", FALSE),
       Pop("eq", R0toR9R11R12, ""),
       LdrLit("eq", "r10", move_effect_input_out_dealt_damage, ""),
       B("eq", "ApplyMoveEffectJumpAddr", "DIVERT"),
       Pop("al", R0toR9R11R12, "RESTORE_AND_CONTINUE"),
       MovI("r1", 1, "RESTORE_AND_CONTINUE", TRUE),
       B("al", "ApplyMoveEffectHookAddr+4", "RESTORE_AND_CONTINUE") >>

\* TrampolineAfterApplyMoveEffect popping one register fewer than it pushed
\* (pop {r1-r11}).
AfterTrampolineShortPop ==
    << Push(R1toR12, "SAVE_STATE", FALSE),
       Mov("r0", "r9", "DISPATCH"),
       Mov("r1", "r4", "DISPATCH"),
       Bl("CheckBeastBoost", "DISPATCH"),
       Pop("al", R1toR12 \ { "r12" }, "RESTORE_AND_CONTINUE"),
       CmpI("r10", 0, "RESTORE_AND_CONTINUE", TRUE),
       B("al", "ApplyMoveEffectJumpAddr+4", "RESTORE_AND_CONTINUE") >>

\* TrampolineAfterApplyMoveEffect
TrampolineAfterApplyMoveEffect ==
    << Push(R1toR12, "SAVE_STATE", FALSE),
       Mov("r0", "r9", "DISPATCH"),
       Mov("r1", "r4", "DISPATCH"),
       Bl("CheckBeastBoost", "DISPATCH"),
       Pop("al", R1toR12, "RESTORE_AND_CONTINUE"),
       CmpI("r10", 0, "RESTORE_AND_CONTINUE", TRUE),
       B("al", "ApplyMoveEffectJumpAddr+4", "RESTORE_AND_CONTINUE") >>

\* The registers the trampolines of the reg_backup kind store, in the order
\* of their words in reg_backup.
ItemBackedUp == << "r0", "r1", "r2", "r3", "r4", "r5", "lr" >>
MoveBackedUp == << "r0", "r1", "r2", "r3", "r4", "r5", "r6", "r7", "r8", "r9",
                   "r11", "r12", "sp", "lr" >>

\* str r, [base, #4k] for the k-th register of rs, and the matching loads.
BackupStores(base, rs) ==
    [ k \in 1..Len(rs) |-> Str(rs[k], base, 4 * (k - 1), "SAVE_STATE") ]
BackupLoads(base, rs) ==
    [ k \in 1..Len(rs) |-> LdrO("al", rs[k], base, 4 * (k - 1), "RESTORE_AND_CONTINUE") ]

\* r3-r10, lr: the list of the push displaced from ApplyItemEffect.
R3toR10Lr == { "r3", "r4", "r5", "r6", "r7", "r8", "r9", "r10", "lr" }

\* cotInternalTrampolineApplyItemEffect, the kind that backs registers up
\* into reg_backup.
ItemEffectRegBackup ==
    << LdrLit("al", "r6", reg_backup, "SAVE_STATE") >>
    \o BackupStores("r6", ItemBackedUp)
    \o << Bl("CustomApplyItemEffect", "DISPATCH"),
          CmpI("r0", 1, "DISPATCH", FALSE),
          LdrLit("al", "r6", reg_backup, ""),
          LdrO("eq", "lr", "r6", 24, ""),
          BxC("eq", "lr", "DIVERT") >>
    \o BackupLoads("r6", ItemBackedUp)
    \o << Push(R3toR10Lr, "RESTORE_AND_CONTINUE", TRUE),
          B("al", "ApplyItemEffect+4", "RESTORE_AND_CONTINUE") >>

\* cotInternalTrampolineApplyMoveEffect, the kind that backs registers up
\* into reg_backup.
MoveEffectRegBackup ==
    << LdrLit("al", "r10", reg_backup, "SAVE_STATE") >>
    \o BackupStores("r10", MoveBackedUp)
    \o << LdrLit("al", "r10", move_effect_input, "DISPATCH"),
          Str("r6", "r10", 0, "DISPATCH"),
          Str("r7", "r10", 4, "DISPATCH"),
          MovI("r0", 0, "DISPATCH", FALSE),
          Str("r0", "r10", 8, "DISPATCH"),
          Mov("r0", "r10", "DISPATCH"),
          Mov("r1", "r9", "DISPATCH"),
          Mov("r2", "r4", "DISPATCH"),
          Mov("r3", "r8", "DISPATCH"),
          Bl("CustomApplyMoveEffect", "DISPATCH"),
          CmpI("r0", 1, "DISPATCH", FALSE),
          LdrLit("al", "r10", reg_backup, ""),
          LdrO("eq", "lr", "r10", 52, ""),
          B("eq", "ApplyMoveEffectJumpAddr", "DIVERT") >>
    \o BackupLoads("r10", MoveBackedUp)
    \o << LdrLit("al", "r10", move_effect_input_out_dealt_damage, "RESTORE_AND_CONTINUE"),
          MovI("r1", 1, "RESTORE_AND_CONTINUE", TRUE),
          B("al", "ApplyMoveEffectHookAddr+4", "RESTORE_AND_CONTINUE") >>

Trampolines == { "special_process", "item_effect", "move_effect", "after_move_effect" }
BackupTrampolines == { "item_effect_reg_backup", "move_effect_reg_backup" }

Program(t) ==
    CASE t = "special_process"   -> cotInternalTrampolineScriptSpecialProcessCall
      [] t = "item_effect"       -> cotInternalTrampolineApplyItemEffect
      [] t = "move_effect"       -> cotInternalTrampolineApplyMoveEffect
      [] t = "after_move_effect" -> TrampolineAfterApplyMoveEffect
      [] t = "item_effect_reg_backup" -> ItemEffectRegBackup
      [] t = "move_effect_reg_backup" -> MoveEffectRegBackup

\* The C functions the trampolines call with bl, and whether they return a
\* bool (in r0) or nothing.
ReturnsBool(f) == f \in { "CustomApplyItemEffect", "CustomApplyMoveEffect" }

(***************************************************************************)
(* State of the trampoline machine.                                        *)
(***************************************************************************)
VARIABLES
    tramp,     \* the trampoline being run ("" before the first hook fires)
    pc,        \* index of the next instruction of Program(tramp); 0: not inside
    exitAt,    \* the label control left the trampoline to ("" while inside)
    regs,      \* register file: Regs -> word
    flags,     \* NZCV
    stack,     \* the words at [sp, ...), lowest address first
    mem,       \* the words of reg_backup and move_effect_input: MemAddrs -> word
    entry,     \* regs, flags and stack when the hook fired
    phases,    \* the phases this invocation went through, in order
    stats,     \* what this invocation did (calls, replays, saves, restores)
    nest       \* the invocations whose handler is waiting for a hooked call
               \* it made, outermost first

trampVars == << tramp, pc, exitAt, regs, flags, stack, mem, entry, phases, stats, nest >>

\* Special process IDs (r1 at ScriptSpecialProcessCall) the model tries: both
\* sides of 100, and both sides of the sign bit.
ProcessIds == { 0, 99, 100, 101, Half - 1, Half, Mod - 1 }

\* The register file when a hook fires.  r0 and r1 are chosen by the caller;
\* every other register holds a value that identifies it.
EntryRegs(r0, r1, v) ==
    [ r \in Regs |->
        CASE r = "r0" -> r0
          [] r = "r1" -> r1
          [] r = "sp" -> 4096
          [] OTHER    -> v * (16 * RegNum(r) + v) ]

\* The caller's words above the stack pointer.
CallerStack == << 2001, 2002 >>

NoFlags == [ N |-> FALSE, Z |-> FALSE, C |-> FALSE, V |-> FALSE ]

ZeroStats ==
    [ calls |-> 0, callee |-> "", handled |-> FALSE, replays |-> 0,
      replaysBeforeCall |-> 0, saved |-> {},
      restored |-> [ r \in Regs |-> 0 ],
      memAtCall |-> << >>, wrote |-> -1, nested |-> 0 ]

TrampInit ==
    /\ tramp = ""
    /\ pc = 0
    /\ exitAt = ""
    /\ regs = EntryRegs(0, 0, 0)
    /\ flags = NoFlags
    /\ stack = CallerStack
    /\ mem = [ a \in MemAddrs |-> 0 ]
    /\ entry = [ regs |-> EntryRegs(0, 0, 0), flags |-> NoFlags, stack |-> CallerStack,
                 mem |-> [ a \in MemAddrs |-> 0 ] ]
    /\ phases = << >>
    /\ stats = ZeroStats
    /\ nest = << >>

\* A hook's branch is reached: control enters trampoline t with the
\* registers the game had at the hook point.
Enter ==
    /\ pc = 0
    /\ exitAt = ""
    /\ \E t \in Trampolines, r0 \in { 0, 1, 5 }, r1 \in ProcessIds,
          v \in 0..MaxVariant, z \in BOOLEAN :
         LET rf == EntryRegs(r0, r1, v)
             fl == [ N |-> FALSE, Z |-> z, C |-> z, V |-> FALSE ]
         IN  /\ tramp' = t
             /\ regs' = rf
             /\ flags' = fl
             /\ entry' = [ regs |-> rf, flags |-> fl, stack |-> CallerStack,
                           mem |-> mem ]
    /\ pc' = 1
    /\ exitAt' = ""
    /\ stack' = CallerStack
    /\ phases' = << "ENTER" >>
    /\ stats' = ZeroStats
    /\ UNCHANGED << mem, nest >>

Cur == Program(tramp)[pc]

\* The phase trace after an instruction of phase ph has been executed.
Phased(ph) ==
    IF ph = "" \/ (Len(phases) > 0 /\ phases[Len(phases)] = ph)
    THEN phases ELSE Append(phases, ph)

\* push {list}: store the listed registers below sp, lowest register at the
\* lowest address, and move sp down.
PushRegs(list) ==
    LET ord == InOrder(list, 1)
    IN  /\ stack' = [ k \in 1..Len(ord) |-> regs[ord[k]] ] \o stack
        /\ regs' = [ regs EXCEPT !["sp"] = Wrap(@ - 4 * Len(ord)) ]

\* pop {list}: load the listed registers from [sp, ...) and move sp up.
PopRegs(list) ==
    LET ord == InOrder(list, 1)
        n   == Len(ord)
        pos(r) == CHOOSE k \in 1..n : ord[k] = r
    IN  /\ regs' = [ r \in Regs |->
                       IF r = "sp" THEN Wrap(regs["sp"] + 4 * n)
                       ELSE IF r \in list THEN stack[pos(r)]
                       ELSE regs[r] ]
        /\ stack' = SubSeq(stack, n + 1, Len(stack))

\* What a C function called from a trampoline may do to the machine under
\* the procedure call standard: r4-r11 and sp are preserved, the stack above
\* sp is untouched, r0 holds the result (0 or 1 for a bool), r1-r3, r12 and
\* the flags hold junk, and lr holds the return address or junk.
Junk(j) == 3000 + j

AfterCall(f, ret, handled, j, keepLr) ==
    /\ regs' = [ r \in Regs |->
                   CASE r = "r0" -> IF ReturnsBool(f)
                                    THEN (IF handled THEN 1 ELSE 0) ELSE Junk(j)
                     [] r \in { "r1", "r2", "r3", "r12" } -> Junk(j)
                     [] r = "lr" -> IF keepLr THEN ret ELSE Junk(j)
                     [] OTHER -> regs[r] ]
    /\ flags' = [ N |-> j % 2 = 0, Z |-> j % 2 = 1, C |-> TRUE, V |-> FALSE ]

\* bl f: the trampoline calls the C handler, which runs to completion.
\* CustomApplyMoveEffect stores its "dealt damage" result through its first
\* argument when it handles the move.
HandlerCall ==
    /\ pc > 0
    /\ Cur.op = "bl"
    /\ \E handled \in BOOLEAN, j \in 1..MaxJunk, keepLr \in BOOLEAN, dealt \in { 0, 1 } :
         /\ ReturnsBool(Cur.tgt) \/ ~handled
         /\ (Cur.tgt = "CustomApplyMoveEffect" /\ handled) \/ dealt = 0
         /\ AfterCall(Cur.tgt, CodeAddr(pc + 1), handled, j, keepLr)
         /\ mem' = IF Cur.tgt = "CustomApplyMoveEffect" /\ handled
                   THEN [ mem EXCEPT ![regs["r0"] + 8] = dealt ]
                   ELSE mem
         /\ stats' = [ stats EXCEPT !.calls = @ + 1, !.callee = Cur.tgt,
                                    !.handled = handled,
                                    !.replaysBeforeCall = stats.replays,
                                    !.memAtCall = mem,
                                    !.wrote = IF Cur.tgt = "CustomApplyMoveEffect" /\ handled
                                              THEN dealt ELSE -1 ]
    /\ phases' = Phased(Cur.phase)
    /\ pc' = pc + 1
    /\ UNCHANGED << tramp, exitAt, stack, entry, nest >>

\* Labels that are C functions: a branch to one enters that function, which
\* returns to whatever lr holds.
IsCFunction(l) == l \in { "CustomScriptSpecialProcessCall" }

\* One instruction other than bl.
TStep ==
    /\ pc > 0
    /\ Cur.op # "bl"
    /\ LET i   == Cur
           run == CondHolds(i.cond, flags)
       IN
       /\ IF ~run THEN UNCHANGED << regs, stack >>
          ELSE CASE i.op = "push"   -> PushRegs(i.list)
                 [] i.op = "pop"    -> PopRegs(i.list)
                 [] i.op = "mov"    -> /\ regs' = [ regs EXCEPT ![i.rd] = regs[i.rn] ]
                                       /\ UNCHANGED stack
                 [] i.op = "movi"   -> /\ regs' = [ regs EXCEPT ![i.rd] = i.imm ]
                                       /\ UNCHANGED stack
                 [] i.op = "ldrlit" -> /\ regs' = [ regs EXCEPT ![i.rd] = i.imm ]
                                       /\ UNCHANGED stack
                 [] i.op = "ldr"    -> /\ regs' = [ regs EXCEPT ![i.rd] = mem[regs[i.rn] + i.imm] ]
                                       /\ UNCHANGED stack
                 [] OTHER           -> UNCHANGED << regs, stack >>
       /\ flags' = IF run /\ i.op = "cmpi" THEN CmpFlags(regs[i.rn], i.imm) ELSE flags
       /\ mem' = IF run /\ i.op = "str"
                 THEN [ mem EXCEPT ![regs[i.rn] + i.imm] = regs[i.rd] ]
                 ELSE mem
       /\ IF run /\ i.op \in { "b", "bx" }
          THEN /\ pc' = 0
               /\ exitAt' = i.tgt
          ELSE /\ pc' = pc + 1
               /\ UNCHANGED exitAt
       /\ phases' = IF run THEN Phased(i.phase) ELSE phases
       /\ stats' =
            IF ~run THEN stats
            ELSE [ stats EXCEPT
                     !.replays = IF i.replay THEN @ + 1 ELSE @,
                     !.saved = IF i.op = "push" /\ i.phase = "SAVE_STATE"
                               THEN @ \cup i.list ELSE @,
                     !.restored = IF i.op = "pop"
                                  THEN [ r \in Regs |-> IF r \in i.list THEN @[r] + 1 ELSE @[r] ]
                                  ELSE @,
                     !.calls = IF i.op = "b" /\ IsCFunction(i.tgt) THEN @ + 1 ELSE @,
                     !.callee = IF i.op = "b" /\ IsCFunction(i.tgt) THEN i.tgt ELSE @,
                     !.replaysBeforeCall =
                         IF i.op = "b" /\ IsCFunction(i.tgt) THEN stats.replays ELSE @ ]
    /\ UNCHANGED << tramp, entry, nest >>

\* Control has left the trampoline: the game's own code runs on from the
\* exit label, using registers and stack as it pleases, until a hook point
\* is reached again.  Only move_effect_input is out of its reach.
GameRunsOn ==
    /\ pc = 0
    /\ exitAt # ""
    /\ nest = << >>
    /\ exitAt' = ""
    /\ regs' = EntryRegs(0, 0, 0)
    /\ flags' = NoFlags
    /\ stack' = CallerStack
    /\ entry' = [ regs |-> EntryRegs(0, 0, 0), flags |-> NoFlags, stack |-> CallerStack,
                  mem |-> mem ]
    /\ phases' = << >>
    /\ stats' = ZeroStats
    /\ UNCHANGED << tramp, pc, mem, nest >>

(***************************************************************************)
(* Hooks that fire inside a handler.  A handler may call a function of the *)
(* game that is hooked itself; the inner trampoline then runs to its exit, *)
(* the hooked function finishes and returns into the handler, and the      *)
(* handler returns to the outer trampoline.                                *)
(***************************************************************************)
\* Words the handler has put on the stack when it makes the hooked call.
HandlerFrameWords == 2

\* The hook of a trampoline of the reg_backup kind fires in the game.
EnterBackup ==
    /\ pc = 0
    /\ exitAt = ""
    /\ nest = << >>
    /\ \E t \in BackupTrampolines, v \in 0..MaxVariant, z \in BOOLEAN :
         LET rf == EntryRegs(5, 7, v)
             fl == [ N |-> FALSE, Z |-> z, C |-> z, V |-> FALSE ]
         IN  /\ tramp' = t
             /\ regs' = rf
             /\ flags' = fl
             /\ entry' = [ regs |-> rf, flags |-> fl, stack |-> CallerStack,
                           mem |-> mem ]
    /\ pc' = 1
    /\ exitAt' = ""
    /\ stack' = CallerStack
    /\ phases' = << "ENTER" >>
    /\ stats' = ZeroStats
    /\ UNCHANGED << mem, nest >>

\* bl f, where f goes on to call a hooked function: the invocation is set
\* aside and the inner trampoline is entered, the stack pointer below the
\* handler's frame.
HookFiresInHandler ==
    /\ pc > 0
    /\ Cur.op = "bl"
    /\ tramp \in BackupTrampolines
    /\ Len(nest) < MaxNest
    /\ \E t \in BackupTrampolines, v \in 0..MaxVariant :
         LET rf == [ EntryRegs(1, 3, v) EXCEPT
                       !["sp"] = Wrap(regs["sp"] - 4 * HandlerFrameWords) ]
             st == [ k \in 1..HandlerFrameWords |-> Junk(k) ] \o stack
         IN  /\ tramp' = t
             /\ regs' = rf
             /\ stack' = st
             /\ entry' = [ regs |-> rf, flags |-> flags, stack |-> st, mem |-> mem ]
    /\ nest' = Append(nest, [ tramp |-> tramp, pc |-> pc, regs |-> regs,
                              stack |-> stack, entry |-> entry,
                              phases |-> phases, stats |-> stats, mem |-> mem ])
    /\ pc' = 1
    /\ exitAt' = ""
    /\ phases' = << "ENTER" >>
    /\ stats' = ZeroStats
    /\ UNCHANGED << flags, mem >>

\* The inner trampoline has left; the hooked function finishes, the handler
\* of the invocation set aside returns to the instruction after its bl.
\* Registers are what the procedure call standard promises relative to the
\* registers at that bl; memory is as the inner invocation left it.
HandlerReturnsAfterHook ==
    /\ pc = 0
    /\ exitAt # ""
    /\ nest # << >>
    /\ LET f == nest[Len(nest)]
           i == Program(f.tramp)[f.pc]
       IN
       \E handled \in BOOLEAN, j \in 1..MaxJunk, dealt \in { 0, 1 } :
         /\ (i.tgt = "CustomApplyMoveEffect" /\ handled) \/ dealt = 0
         /\ regs' = [ r \in Regs |->
                        CASE r = "r0" -> IF handled THEN 1 ELSE 0
                          [] r \in { "r1", "r2", "r3", "r12" } -> Junk(j)
                          [] r = "lr" -> CodeAddr(f.pc + 1)
                          [] OTHER -> f.regs[r] ]
         /\ flags' = [ N |-> j % 2 = 0, Z |-> j % 2 = 1, C |-> TRUE, V |-> FALSE ]
         /\ mem' = IF i.tgt = "CustomApplyMoveEffect" /\ handled
                   THEN [ mem EXCEPT ![f.regs["r0"] + 8] = dealt ]
                   ELSE mem
         /\ stats' = [ f.stats EXCEPT !.calls = @ + 1, !.callee = i.tgt,
                                      !.handled = handled,
                                      !.replaysBeforeCall = f.stats.replays,
                                      !.memAtCall = f.mem,
                                      !.wrote = IF i.tgt = "CustomApplyMoveEffect" /\ handled
                                                THEN dealt ELSE -1,
                                      !.nested = @ + 1 ]
         /\ tramp' = f.tramp
         /\ pc' = f.pc + 1
         /\ stack' = f.stack
         /\ entry' = f.entry
         /\ phases' = IF f.phases[Len(f.phases)] = i.phase
                      THEN f.phases ELSE Append(f.phases, i.phase)
    /\ exitAt' = ""
    /\ nest' = SubSeq(nest, 1, Len(nest) - 1)

(***************************************************************************)
(* Reading an invocation.                                                  *)
(***************************************************************************)
Exited == pc = 0 /\ exitAt # ""

\* The exit that treats the handler's result as authoritative.
DivertLabel(t) ==
    CASE t = "special_process"   -> "CustomScriptSpecialProcessCall"
      [] t = "item_effect"       -> "ApplyItemEffectJumpAddr"
      [] t = "move_effect"       -> "ApplyMoveEffectJumpAddr"
      [] t = "after_move_effect" -> "none"

\* The exit that resumes the game's code after the hook.
ContinueLabel(t) ==
    CASE t = "special_process"   -> "ScriptSpecialProcessCall+4"
      [] t = "item_effect"       -> "ApplyItemEffectHookAddr+4"
      [] t = "move_effect"       -> "ApplyMoveEffectHookAddr+4"
      [] t = "after_move_effect" -> "ApplyMoveEffectJumpAddr+4"

Diverted == Exited /\ exitAt = DivertLabel(tramp)
Continued == Exited /\ exitAt = ContinueLabel(tramp)

IsPrefix(a, b) == Len(a) <= Len(b) /\ a = SubSeq(b, 1, Len(a))

\* The instruction of trampoline t that the hook's branch displaced.
Displaced(t) ==
    LET p == Program(t)
    IN  p[CHOOSE k \in 1..Len(p) : p[k].replay]

\* The machine state the unpatched game has after the displaced instruction
\* of trampoline t, started in state e (the state at the hook point).
Unpatched(t, e) ==
    LET i == Displaced(t)
        ord == InOrder(i.list, 1)
    IN  CASE i.op = "cmpi" ->
               [ e EXCEPT !.flags = CmpFlags(e.regs[i.rn], i.imm) ]
          [] i.op = "movi" ->
               [ e EXCEPT !.regs[i.rd] = i.imm ]
          [] i.op = "push" ->
               [ e EXCEPT !.regs["sp"] = Wrap(@ - 4 * Len(ord)),
                          !.stack = [ k \in 1..Len(ord) |-> e.regs[ord[k]] ] \o @ ]

SetsFlags(i) == i.op = "cmpi"

(***************************************************************************)
(* The C dispatchers (src/cot/effects.c, ground instructions, the special  *)
(* process handler), statement by statement.                               *)
(***************************************************************************)
VARIABLES
    build,         \* how the code was compiled: COT_RUST, NDEBUG, table length
    dpc,           \* position inside the running C function ("idle": none)
    dcall,         \* the running call: function and arguments
    handled,       \* the local `handled` / what the last chain reported
    chainLog,      \* the handler chains consulted, in order, with their answers
    dlog,          \* what DebugPrint was given during the call
    dret,          \* the value returned to the caller
    return_val,    \* the local return_val of the special process dispatcher
    tableReads,    \* the indices at which CUSTOM_INSTRUCTIONS was read
    handlerCalls,  \* the custom instruction handlers run: <<index, routine, args>>
    border,        \* the game's global border colour (ChangeGlobalBorderColor)
    borderAtCall   \* border when the running call began

dispVars == << build, dpc, dcall, handled, chainLog, dlog, dret, return_val,
               tableReads, handlerCalls, border, borderAtCall >>

\* Largest CUSTOM_INSTRUCTIONS table the model builds.
MaxInstructionAmount == 3

\* ARRAY_LENGTH(CUSTOM_INSTRUCTIONS) of the build.
CUSTOM_INSTRUCTION_AMOUNT == build.amount

\* The logging macros: DebugPrint(level, ...) unless the build defines
\* NDEBUG, in which case they expand to nothing.  Levels: 0 COT_LOG,
\* 1 COT_WARN, 2 COT_ERROR.
Logged(log, level, what, arg) ==
    IF build.ndebug THEN log
    ELSE Append(log, [ level |-> level, what |-> what, arg |-> arg ])

NoCall == [ fn |-> "", id |-> 0, arg1 |-> 0, routine |-> 0, args |-> 0 ]

DispInit ==
    /\ build \in [ rust : BOOLEAN, ndebug : BOOLEAN, amount : 1..MaxInstructionAmount ]
    /\ dpc = "idle"
    /\ dcall = NoCall
    /\ handled = FALSE
    /\ chainLog = << >>
    /\ dlog = << >>
    /\ dret = 0
    /\ return_val = 0
    /\ tableReads = {}
    /\ handlerCalls = << >>
    /\ border = 0
    /\ borderAtCall = 0

\* A trampoline or hook calls one of the C functions.
Begin(fn, id, arg1, routine, args, first) ==
    /\ dpc = "idle"
    /\ dcall' = [ fn |-> fn, id |-> id, arg1 |-> arg1, routine |-> routine, args |-> args ]
    /\ dpc' = first
    /\ handled' = FALSE
    /\ chainLog' = << >>
    /\ dlog' = << >>
    /\ dret' = 0
    /\ return_val' = 0
    /\ tableReads' = {}
    /\ handlerCalls' = << >>
    /\ borderAtCall' = border
    /\ UNCHANGED << build, border >>

Finish(ret) ==
    /\ dret' = ret
    /\ dpc' = "idle"

(* cotInternalDispatchApplyItemEffect / cotInternalDispatchApplyMoveEffect *)

EffectDispatchers == { "cotInternalDispatchApplyItemEffect",
                       "cotInternalDispatchApplyMoveEffect" }

CChainOf(fn) ==
    IF fn = "cotInternalDispatchApplyItemEffect"
    THEN "CustomApplyItemEffect" ELSE "CustomApplyMoveEffect"

RustChainOf(fn) ==
    IF fn = "cotInternalDispatchApplyItemEffect"
    THEN "eos_rs_apply_item_effect" ELSE "eos_rs_apply_move_effect"

CallEffectDispatch ==
    \E fn \in EffectDispatchers : Begin(fn, 0, 0, 0, 0, "c_chain")

\* The CustomApplyItemEffect that comes with the Elixir example ends its
\* switch, in a COT_RUST build, with `return eos_rs_apply_item_effect(...)`:
\* for an item it has no case for, the C handler asks the Rust handler
\* itself and returns its answer.
HandlerAsksRust(fn) == fn = "cotInternalDispatchApplyItemEffect" /\ build.rust

\* bool handled = CustomApply*Effect(...);  inner lists the calls the C
\* handler made on its own before it returned.
EffectCChain ==
    /\ dpc = "c_chain"
    /\ \E h \in BOOLEAN, viaRust \in BOOLEAN :
         /\ viaRust => HandlerAsksRust(dcall.fn)
         /\ handled' = h
         /\ chainLog' = Append(chainLog,
                [ chain |-> CChainOf(dcall.fn), handled |-> h,
                  inner |-> IF viaRust
                            THEN << [ chain |-> RustChainOf(dcall.fn), handled |-> h ] >>
                            ELSE << >> ])
    /\ dpc' = "rust_chain"
    /\ UNCHANGED << build, dcall, dlog, dret, return_val, tableReads, handlerCalls,
                    border, borderAtCall >>

\* The Rust chain asked in every COT_RUST build, whatever the C chain said.
RustAskedAlways == build.rust

\* #ifdef COT_RUST  if (!handled) { ... }
RustAsked == build.rust /\ ~handled

\* handled = eos_rs_apply_*_effect(...);  (or nothing, when not asked)
EffectRustChain ==
    /\ dpc = "rust_chain"
    /\ IF RustAsked
       THEN \E h \in BOOLEAN :
              /\ handled' = h
              /\ chainLog' = Append(chainLog, [ chain |-> RustChainOf(dcall.fn), handled |-> h ])
       ELSE UNCHANGED << handled, chainLog >>
    /\ dpc' = "return"
    /\ UNCHANGED << build, dcall, dlog, dret, return_val, tableReads, handlerCalls,
                    border, borderAtCall >>

\* return handled;
EffectReturn ==
    /\ dpc = "return"
    /\ dcall.fn \in EffectDispatchers
    /\ Finish(IF handled THEN 1 ELSE 0)
    /\ UNCHANGED << build, dcall, handled, chainLog, dlog, return_val, tableReads,
                    handlerCalls, border, borderAtCall >>

(* DispatchCustomInstruction *)

\* Indices DispatchCustomInstruction is called with (opcode - FIRST_CUSTOM_OPCODE).
InstructionIndices == { -1, 0, 1, 2, 3, 5 }

CallDispatchCustomInstruction ==
    \E index \in InstructionIndices, routine \in { 1, 2 }, args \in { 1, 2 } :
      Begin("DispatchCustomInstruction", index, 0, routine, args, "bounds_check")

\* The bounds test with > in place of >=.
InstructionIndexOutOfRangeOffByOne(index) ==
    index < 0 \/ index > CUSTOM_INSTRUCTION_AMOUNT

\* index < 0 || index >= CUSTOM_INSTRUCTION_AMOUNT
InstructionIndexOutOfRange(index) ==
    index < 0 \/ index >= CUSTOM_INSTRUCTION_AMOUNT

\* if (out of range) { COT_ERRORFMT(..., index); return; }
InstructionRejected ==
    /\ dpc = "bounds_check"
    /\ InstructionIndexOutOfRange(dcall.id)
    /\ dlog' = Logged(dlog, 2, "Custom opcode out of bounds", dcall.id)
    /\ Finish(0)
    /\ UNCHANGED << build, dcall, handled, chainLog, return_val, tableReads,
                    handlerCalls, border, borderAtCall >>

\* instruction = &CUSTOM_INSTRUCTIONS[index]; COT_LOGFMT(...);
\* instruction->handler(routine, args);
InstructionRun ==
    /\ dpc = "bounds_check"
    /\ ~InstructionIndexOutOfRange(dcall.id)
    /\ tableReads' = tableReads \cup { dcall.id }
    /\ dlog' = Logged(dlog, 0, "Running custom instruction", dcall.id)
    /\ handlerCalls' = Append(handlerCalls, << dcall.id, dcall.routine, dcall.args >>)
    /\ Finish(0)
    /\ UNCHANGED << build, dcall, handled, chainLog, return_val, border, borderAtCall >>

(* CustomScriptSpecialProcessCall (special_processes.c), entered straight   *)
(* from the trampoline                                                      *)

\* Special process IDs the trampoline lets through to the custom handler.
CustomProcessIds == { 100, 101, 102 }

CallCustomScriptSpecialProcessCall ==
    \E id \in CustomProcessIds, arg1 \in { 0, 1 } :
      Begin("CustomScriptSpecialProcessCall", id, arg1, 0, 0, "sp_log")

\* COT_LOGFMT(..., "Running special process %d (arg1=%d, arg2=%d)", ...);
SpLogRunning ==
    /\ dpc = "sp_log"
    /\ dlog' = Logged(dlog, 0, "Running special process", dcall.id)
    /\ dpc' = "sp_switch"
    /\ UNCHANGED << build, dcall, handled, chainLog, dret, return_val, tableReads,
                    handlerCalls, border, borderAtCall >>

\* The cases of the switch: case 100 is the only one.
SpKnown(id) == id = 100

\* The unhandled ID passes without a word.
UnhandledSilent(log, id) == log

\* COT_WARNFMT(COT_LOG_CAT_SPECIAL_PROCESS, "Unhandled special process ID %d", id);
UnhandledWarned(log, id) == Logged(log, 1, "Unhandled special process ID", id)

\* case 100: return SpChangeBorderColor(arg1);
SpCase100 ==
    /\ dpc = "sp_switch"
    /\ SpKnown(dcall.id)
    /\ border' = dcall.arg1
    /\ Finish(0)
    /\ UNCHANGED << build, dcall, handled, chainLog, dlog, return_val, tableReads,
                    handlerCalls, borderAtCall >>

\* default: COT_WARNFMT(..., "Unhandled special process ID %d", id);  return 0;
SpDefault ==
    /\ dpc = "sp_switch"
    /\ ~SpKnown(dcall.id)
    /\ dlog' = UnhandledWarned(dlog, dcall.id)
    /\ Finish(0)
    /\ UNCHANGED << build, dcall, handled, chainLog, return_val, tableReads,
                    handlerCalls, border, borderAtCall >>

(* cotInternalDispatchScriptSpecialProcessCall (effects.c)                  *)

\* Values a handler chain may store through the return_val pointer.
ProcessResults == { 0, 7 }

CallDispatchScriptSpecialProcessCall ==
    \E id \in CustomProcessIds, arg1 \in { 0, 1 } :
      Begin("cotInternalDispatchScriptSpecialProcessCall", id, arg1, 0, 0, "sp_c_chain")

\* bool CustomScriptSpecialProcessCall(unknown, id, arg1, arg2, int* return_val):
\* the handler of the five-argument interface.  It runs the case of a known
\* ID, stores the result through return_val and reports true; any other ID
\* is reported false with nothing touched.
SpCChain ==
    /\ dpc = "sp_c_chain"
    /\ IF SpKnown(dcall.id)
       THEN /\ border' = dcall.arg1
            /\ return_val' = 0
            /\ handled' = TRUE
       ELSE /\ handled' = FALSE
            /\ UNCHANGED << border, return_val >>
    /\ chainLog' = Append(chainLog, [ chain |-> "CustomScriptSpecialProcessCall",
                                      handled |-> SpKnown(dcall.id) ])
    /\ dpc' = "sp_unhandled"
    /\ UNCHANGED << build, dcall, dlog, dret, tableReads, handlerCalls, borderAtCall >>

\* eos_rs_call_special_process(unknown, id, arg1, arg2, &return_val): the Rust
\* runtime either knows the ID and stores a result, or leaves return_val alone.
\* Nothing it prints goes through the C logging macros.
SpRustChain ==
    \E known \in BOOLEAN, result \in ProcessResults :
      /\ return_val' = IF known THEN result ELSE return_val
      /\ chainLog' = Append(chainLog, [ chain |-> "eos_rs_call_special_process",
                                        handled |-> known ])
      /\ UNCHANGED dlog

\* if (!handled) {
\* #ifdef COT_RUST  eos_rs_call_special_process(...);
\* #else            COT_WARNFMT(..., "Unhandled special process ID %d", id);
\* #endif }
SpUnhandled ==
    /\ dpc = "sp_unhandled"
    /\ IF handled
       THEN UNCHANGED << return_val, chainLog, dlog >>
       ELSE IF build.rust
            THEN SpRustChain
            ELSE /\ dlog' = UnhandledWarned(dlog, dcall.id)
                 /\ UNCHANGED << return_val, chainLog >>
    /\ dpc' = "sp_return"
    /\ UNCHANGED << build, dcall, handled, dret, tableReads, handlerCalls,
                    border, borderAtCall >>

\* return return_val;
SpReturn ==
    /\ dpc = "sp_return"
    /\ Finish(return_val)
    /\ UNCHANGED << build, dcall, handled, chainLog, dlog, return_val, tableReads,
                    handlerCalls, border, borderAtCall >>


(***************************************************************************)
(* Custom script menus (src/cot/effects.c 50-151, the menu table and the   *)
(* three example menus).  The game's windows, roster and keyboard are not  *)
(* modelled: what they answer is drawn as an input of each frame.          *)
(***************************************************************************)
VARIABLES
    GLOBAL_MENU_INFO,   \* struct global_menu_info
    menuPhase,          \* the script's message_Menu: "none", "active", "done"
    menuRun,            \* the running request: its menu_id, frames so far
    menuTrace,          \* create/update/close calls of the run, in order
    callTrace,          \* update/close calls of the last dispatch call
    script_return_val,  \* the int the engine passes by pointer as return_val
    menuAtCall,         \* GLOBAL_MENU_INFO and *return_val before the last call
    menuFinished,       \* what the last DispatchCustomScriptMenu returned
    mlog,               \* what the last menu call gave to DebugPrint
    menuCalled,         \* the functions the last menu call called, by name
    menuReads,          \* the indices at which the last call read CUSTOM_MENUS
    menuStringId,       \* the string ID last given to PreprocessStringFromId
    menuAtCreate,       \* GLOBAL_MENU_INFO as the create function of the run found it
    menuGame            \* the game's side of the run: windows and the new recruit

menuVars == << GLOBAL_MENU_INFO, menuPhase, menuRun, menuTrace, callTrace,
               script_return_val, menuAtCall, menuFinished, mlog, menuCalled,
               menuReads, menuStringId, menuAtCreate, menuGame >>

\* __attribute((used)) const int FIRST_CUSTOM_SCRIPT_MENU = 80;
FIRST_CUSTOM_SCRIPT_MENU == 80

\* Frames of one run that the trace and the frame counter keep apart.
MaxFrames == 3

\* Entries of window_ids and menu_results the model carries (20 in the struct;
\* the menus use the first three).
MenuSlots == 3

Slots == 0 .. (MenuSlots - 1)

\* The table: ID 80, 81, 82.
CUSTOM_MENUS ==
    << [ keyboard_prompt_string_id |-> 0,
         keyboard_confirm_string_id |-> 0,
         create |-> "CreateRecruitAnyMonsterMenu",
         close  |-> "CloseRecruitAnyMonsterMenu",
         update |-> "UpdateRecruitAnyMonsterMenu" ],
       [ keyboard_prompt_string_id |-> 263,
         keyboard_confirm_string_id |-> 431,
         create |-> "CreateSimpleKeyboardMenu",
         close  |-> "ClosePasswordMenu",
         update |-> "UpdateSimpleKeyboardMenu" ],
       [ keyboard_prompt_string_id |-> 283,
         keyboard_confirm_string_id |-> 292,
         create |-> "CreateSimpleKeyboardMenu",
         close  |-> "ClosePartnerNameMenu",
         update |-> "UpdateSimpleKeyboardMenu" ] >>

\* const int CUSTOM_MENU_AMOUNT = ARRAY_LENGTH(CUSTOM_MENUS);
CUSTOM_MENU_AMOUNT == Len(CUSTOM_MENUS)

\* The table entry at a C index (0-based).
MenuAt(index) == CUSTOM_MENUS[index + 1]

\* bool CustomMenuIsOutOfRange(int index)
CustomMenuIsOutOfRange(index) == index < 0 \/ index >= CUSTOM_MENU_AMOUNT

\* MemZero(&GLOBAL_MENU_INFO, sizeof(struct global_menu_info));
ZeroMenuInfo ==
    [ id |-> 0, state |-> 0, return_val |-> 0, previous_option |-> 0,
      portrait_monster_id |-> 0,
      menu_results |-> [ s \in Slots |-> 0 ],
      window_ids |-> [ s \in Slots |-> 0 ] ]

\* What the game answers during one frame.
FrameInputs ==
    [ adv_active : BOOLEAN,        \* IsAdvancedMenuActive2
      adv_result : { -1, 0, 1 },   \* GetAdvancedMenuResult
      adv_option : { 0, 1 },       \* GetAdvancedMenuCurrentOption
      gender_invalid : BOOLEAN,    \* GetMonsterGender(...) == GENDER_INVALID
      simple_active : BOOLEAN,     \* IsSimpleMenuActive
      simple_result : { -1, 1, 2 },\* GetSimpleMenuResult
      empty_idx : { -1, 0 },       \* GetFirstEmptyMemberIdx
      base_finished : BOOLEAN,     \* IS_BASE_GAME_MENU_FINISHED
      password_cmp : { 0, 1 } ]    \* strncmp(GetKeyboardStringResult(), "shard", 10)

\* The window the game hands out for a slot of window_ids.
WindowHandle(slot) == slot + 1

\* The game's side of a run: the windows that are open, whether a close
\* function was called on a window that is not open (stale), whether a window
\* was created over one still open (lost), and the team member added.
NoGame == [ open |-> {}, stale |-> FALSE, lost |-> FALSE, recruit |-> << >> ]

\* CreateAdvancedMenu, CreatePortraitBox, CreateSimpleMenuFromStringIds
CreateWindow(w, h) == [ w EXCEPT !.open = @ \cup { h }, !.lost = @ \/ h \in w.open ]

\* CloseAdvancedMenu, ClosePortraitBox, CloseSimpleMenu
CloseWindow(w, h) == [ w EXCEPT !.open = @ \ { h }, !.stale = @ \/ h \notin w.open ]

\* if(GLOBAL_MENU_INFO.window_ids[slot] >= 0) Close...(window_ids[slot]);
CloseIfSet(w, g, slot) ==
    IF g.window_ids[slot] >= 0 THEN CloseWindow(w, g.window_ids[slot]) ELSE w

\* void CreateRecruitAnyMonsterMenu()
CreateRecruitAnyMonsterMenu(g) ==
    [ g EXCEPT !.portrait_monster_id = 1,
               !.window_ids[0] = WindowHandle(0),
               !.window_ids[1] = WindowHandle(1) ]

\* The gender menu left without a choice, the window ID kept in the struct.
GenderMenuLeftKeepsId(g, in) ==
    [ g EXCEPT !.menu_results[2] = in.simple_result, !.state = 0 ]

\* CloseSimpleMenu(simple_menu_id); ResumeAdvancedMenu(adv_menu_id);
\* GLOBAL_MENU_INFO.window_ids[2] = -1; GLOBAL_MENU_INFO.state = 0;
GenderMenuLeft(g, in) ==
    [ g EXCEPT !.menu_results[2] = in.simple_result,
               !.window_ids[2] = -1,
               !.state = 0 ]

\* bool UpdateRecruitAnyMonsterMenu(): the struct it leaves behind.
UpdateRecruitAnyMonsterMenu(g, in) ==
    CASE g.state = 0 ->
           IF ~in.adv_active
           THEN IF in.adv_result >= 0
                THEN [ g EXCEPT !.menu_results[0] = in.adv_result, !.state = 1 ]
                ELSE [ g EXCEPT !.menu_results[0] = in.adv_result, !.state = -1,
                                !.return_val = -1 ]
           ELSE IF in.adv_option # g.previous_option
                THEN [ g EXCEPT !.portrait_monster_id = in.adv_option + 1,
                                !.previous_option = in.adv_option ]
                ELSE g
      [] g.state = 1 ->
           IF in.gender_invalid
           THEN [ g EXCEPT !.state = 3 ]
           ELSE [ g EXCEPT !.window_ids[2] = WindowHandle(2), !.state = 2 ]
      [] g.state = 2 ->
           IF ~in.simple_active
           THEN IF in.simple_result > 0
                THEN [ g EXCEPT !.menu_results[2] = in.simple_result,
                                !.menu_results[0] =
                                    IF in.simple_result = 2 THEN @ + 600 ELSE @,
                                !.state = 3 ]
                ELSE GenderMenuLeft(g, in)
           ELSE g
      [] g.state = 3 ->
           [ g EXCEPT !.return_val = IF in.empty_idx > -1 THEN in.empty_idx ELSE -2,
                      !.state = -1 ]
      [] OTHER -> g

\* What UpdateRecruitAnyMonsterMenu does on the game's side: the gender menu
\* is created in state 1 and closed in state 2 when it was left without a
\* choice; in state 3 the monster becomes a team member when a slot is free.
RecruitAnyMonsterGame(g, in, w) ==
    CASE g.state = 1 /\ ~in.gender_invalid -> CreateWindow(w, WindowHandle(2))
      [] g.state = 2 /\ ~in.simple_active /\ ~(in.simple_result > 0) ->
           CloseWindow(w, g.window_ids[2])
      [] g.state = 3 /\ in.empty_idx > -1 ->
           [ w EXCEPT !.recruit = << in.empty_idx, g.menu_results[0] + 1 >> ]
      [] OTHER -> w

\* void CloseRecruitAnyMonsterMenu()
CloseRecruitAnyMonsterMenu(g, w) ==
    CloseIfSet(CloseIfSet(CloseIfSet(w, g, 0), g, 1), g, 2)

\* The game's side of create, update and close of a table entry.
GameAfterCreate(menu, w) ==
    IF menu.create = "CreateRecruitAnyMonsterMenu"
    THEN CreateWindow(CreateWindow(w, WindowHandle(0)), WindowHandle(1))
    ELSE w

GameAfterUpdate(menu, g, in, w) ==
    IF menu.update = "UpdateRecruitAnyMonsterMenu"
    THEN RecruitAnyMonsterGame(g, in, w) ELSE w

GameAfterClose(menu, g, w) ==
    IF menu.close = "CloseRecruitAnyMonsterMenu"
    THEN CloseRecruitAnyMonsterMenu(g, w) ELSE w

\* true already when state 3 is entered.
RecruitAnyMonsterMenuFinishedAtThree(g) == g.state \notin { 0, 1, 2 }

\* ... and what it returns: true only in the default case of the switch.
RecruitAnyMonsterMenuFinished(g) == g.state \notin { 0, 1, 2, 3 }

\* script_menu->create()
RunCreate(menu, g) ==
    IF menu.create = "CreateRecruitAnyMonsterMenu"
    THEN CreateRecruitAnyMonsterMenu(g)
    ELSE g    \* CreateSimpleKeyboardMenu: SetupKeyboard(GLOBAL_MENU_INFO.id, ...)

\* script_menu->update(): the struct afterwards ...
RunUpdate(menu, g, in) ==
    IF menu.update = "UpdateRecruitAnyMonsterMenu"
    THEN UpdateRecruitAnyMonsterMenu(g, in)
    ELSE g    \* UpdateSimpleKeyboardMenu

\* ... and the bool it returns.
UpdateReturns(menu, g, in) ==
    IF menu.update = "UpdateRecruitAnyMonsterMenu"
    THEN RecruitAnyMonsterMenuFinished(g)
    ELSE in.base_finished    \* return IS_BASE_GAME_MENU_FINISHED;

\* script_menu->close()
RunClose(menu, g, in) ==
    CASE menu.close = "ClosePasswordMenu" ->
           [ g EXCEPT !.return_val = in.password_cmp ]
      [] menu.close = "ClosePartnerNameMenu" ->
           [ g EXCEPT !.return_val = 0 ]
      [] OTHER -> g    \* CloseRecruitAnyMonsterMenu closes the windows

\* Menu IDs a script passes to message_Menu that reach the custom hooks.
MenuIds == { 79, 80, 81, 82, 83 }

\* Values the engine's result variable may hold when a menu is requested.
EngineResults == { 0, 9 }

NoMenuCall == [ info |-> ZeroMenuInfo, return_val |-> 0 ]

MenuInit ==
    /\ GLOBAL_MENU_INFO = ZeroMenuInfo
    /\ menuPhase = "none"
    /\ menuRun = [ menu_id |-> 0, frames |-> 0 ]
    /\ menuTrace = << >>
    /\ callTrace = << >>
    /\ script_return_val = 0
    /\ menuAtCall = NoMenuCall
    /\ menuFinished = FALSE
    /\ mlog = << >>
    /\ menuCalled = << >>
    /\ menuReads = {}
    /\ menuStringId = 0
    /\ menuAtCreate = ZeroMenuInfo
    /\ menuGame = NoGame

\* The trace of the run, keeping the updates of the first MaxFrames frames.
Traced(trace, events, frames) ==
    IF frames < MaxFrames THEN trace \o events
    ELSE trace \o SelectSeq(events, LAMBDA e : e # "update")

\* GLOBAL_MENU_INFO.id = menu_id on the struct as the last run left it.
PreparedMenuInfoWithoutMemZero(menu_id) ==
    [ GLOBAL_MENU_INFO EXCEPT !.id = menu_id,
                              !.window_ids = [ s \in Slots |-> -1 ] ]

\* MemZero(&GLOBAL_MENU_INFO, ...); GLOBAL_MENU_INFO.id = menu_id;
\* ArrayFill32(-1, GLOBAL_MENU_INFO.window_ids, ...);
PreparedMenuInfo(menu_id) ==
    [ ZeroMenuInfo EXCEPT !.id = menu_id,
                          !.window_ids = [ s \in Slots |-> -1 ] ]

\* message_Menu(menu_id) in a script: HookScriptMenuRequestCheck calls
\* InitializeCustomScriptMenu(menu_id).
InitializeCustomScriptMenu ==
    \E menu_id \in MenuIds, held \in EngineResults :
      LET index == menu_id - FIRST_CUSTOM_SCRIPT_MENU IN
      /\ menuPhase # "active"
      /\ menuPhase' = "active"
      /\ menuRun' = [ menu_id |-> menu_id, frames |-> 0 ]
      /\ script_return_val' = held
      /\ menuAtCall' = [ info |-> GLOBAL_MENU_INFO, return_val |-> held ]
      /\ callTrace' = << >>
      /\ menuFinished' = FALSE
      /\ UNCHANGED menuStringId
      /\ IF CustomMenuIsOutOfRange(index)
         THEN /\ mlog' = Logged(<< >>, 2, "Custom request for script menu out of bounds",
                                menu_id)
              /\ menuTrace' = << >>
              /\ menuCalled' = << >>
              /\ menuReads' = {}
              /\ menuAtCreate' = ZeroMenuInfo
              /\ menuGame' = NoGame
              /\ UNCHANGED GLOBAL_MENU_INFO
         ELSE /\ mlog' = Logged(<< >>, 0, "Running custom script menu", menu_id)
              /\ menuTrace' = << "create" >>
              /\ menuCalled' = << MenuAt(index).create >>
              /\ menuReads' = { index }
              /\ menuAtCreate' = PreparedMenuInfo(menu_id)
              /\ menuGame' = GameAfterCreate(MenuAt(index), NoGame)
              /\ GLOBAL_MENU_INFO' = RunCreate(MenuAt(index), PreparedMenuInfo(menu_id))

\* close() run on every frame, finished or not.
CloseDueAlways(is_menu_finished) == TRUE

\* if(is_menu_finished) { script_menu->close(); ... }
CloseDue(is_menu_finished) == is_menu_finished

\* The value stored through the pointer read before close() has run.
StoredBeforeClose(updated, closed) == updated.return_val

\* *return_val = GLOBAL_MENU_INFO.return_val;  (after script_menu->close())
StoredReturnVal(updated, closed) == closed.return_val

\* The result variable left as the script engine held it.
RejectedReturnValKept == script_return_val

\* *return_val = -1;  (menu ID outside the table)
RejectedReturnVal == -1

\* Every frame while the routine waits: HookScriptMenuUpdateCheck calls
\* DispatchCustomScriptMenu(menu_id, &return_val).
DispatchCustomScriptMenu ==
    \E in \in FrameInputs :
      LET menu_id == menuRun.menu_id
          index == menu_id - FIRST_CUSTOM_SCRIPT_MENU
          menu == MenuAt(index)
          updated == RunUpdate(menu, GLOBAL_MENU_INFO, in)
          is_menu_finished == UpdateReturns(menu, GLOBAL_MENU_INFO, in)
          closed == RunClose(menu, updated, in)
      IN
      /\ menuPhase = "active"
      /\ menuAtCall' = [ info |-> GLOBAL_MENU_INFO, return_val |-> script_return_val ]
      /\ menuRun' = [ menuRun EXCEPT !.frames = IF @ < MaxFrames THEN @ + 1 ELSE @ ]
      /\ mlog' = << >>
      /\ UNCHANGED << menuStringId, menuAtCreate >>
      /\ IF CustomMenuIsOutOfRange(index)
         THEN /\ script_return_val' = RejectedReturnVal
              /\ UNCHANGED menuGame
              /\ menuFinished' = TRUE
              /\ callTrace' = << >>
              /\ menuCalled' = << >>
              /\ menuReads' = {}
              /\ UNCHANGED GLOBAL_MENU_INFO
         ELSE /\ menuFinished' = is_menu_finished
              /\ menuReads' = { index }
              /\ menuGame' =
                   IF CloseDue(is_menu_finished)
                   THEN GameAfterClose(menu, updated,
                                       GameAfterUpdate(menu, GLOBAL_MENU_INFO, in, menuGame))
                   ELSE GameAfterUpdate(menu, GLOBAL_MENU_INFO, in, menuGame)
              /\ menuCalled' = IF CloseDue(is_menu_finished)
                               THEN << menu.update, menu.close >>
                               ELSE << menu.update >>
              /\ callTrace' = IF CloseDue(is_menu_finished)
                              THEN << "update", "close" >> ELSE << "update" >>
              /\ IF CloseDue(is_menu_finished)
                 THEN /\ GLOBAL_MENU_INFO' = [ closed EXCEPT !.id = 0 ]
                      /\ script_return_val' = StoredReturnVal(updated, closed)
                 ELSE /\ GLOBAL_MENU_INFO' = updated
                      /\ UNCHANGED script_return_val
      /\ menuTrace' = Traced(menuTrace, callTrace', menuRun.frames)
      /\ menuPhase' = IF menuFinished' THEN "done" ELSE "active"

\* String IDs the game asks CustomPreprocessStringFromId for.
GameStringIds == { 5 }

\* The patched call of PreprocessStringFromId in the keyboard code: while
\* GLOBAL_MENU_INFO.id is that of a custom menu, the string is replaced by
\* the menu's keyboard_confirm_string_id.
CustomPreprocessStringFromId ==
    \E string_id \in GameStringIds :
      LET index == GLOBAL_MENU_INFO.id - FIRST_CUSTOM_SCRIPT_MENU IN
      /\ IF ~CustomMenuIsOutOfRange(index)
         THEN /\ menuReads' = { index }
              /\ menuStringId' = MenuAt(index).keyboard_confirm_string_id
         ELSE /\ menuReads' = {}
              /\ menuStringId' = string_id
      /\ UNCHANGED << GLOBAL_MENU_INFO, menuPhase, menuRun, menuTrace, callTrace,
                      script_return_val, menuAtCall, menuFinished, mlog, menuCalled,
                      menuAtCreate, menuGame >>


(***************************************************************************)
(* The naked hook functions the patches branch to (HookOpcodeCheck,        *)
(* NewInstructions, HookKeyboardCheck), run on a register file of their    *)
(* own.  A bl to a C function starts that function in the dispatcher model *)
(* and resumes when it has returned.                                       *)
(***************************************************************************)
VARIABLES
    hk,        \* the hook being run ("" when none)
    hkpc,      \* position in its instruction sequence (0 when none)
    hkExit,    \* the label control left through ("" while inside)
    hkRegs,    \* registers
    hkFlags,   \* NZCV
    hkEntry,   \* registers and flags when the hook was entered
    hkCalls,   \* the bl calls of this invocation: <<function, r0, r1, r2>>
    hkReplays, \* how often the displaced instruction was executed
    hkWait,    \* TRUE while a function called by bl is running
    hkAccess   \* the table and game memory the hook has read or written

hookVars == << hk, hkpc, hkExit, hkRegs, hkFlags, hkEntry, hkCalls, hkReplays, hkWait,
              hkAccess >>

\* __attribute((used)) const int FIRST_CUSTOM_OPCODE = 0x1000;
FIRST_CUSTOM_OPCODE == 4096

\* Where the linker puts the constant FIRST_CUSTOM_SCRIPT_MENU.
AddrOfFirstCustomScriptMenu == 768

\* Where the linker puts the constant FIRST_CUSTOM_OPCODE and the two
\* tables, and where the game keeps the pointer to its keyboard data and
\* that data.
HookData == [ FIRST_CUSTOM_OPCODE |-> 772, CUSTOM_INSTRUCTIONS |-> 2048,
              CUSTOM_MENUS |-> 3072, keyboard_ptr |-> 776, keyboard |-> 1280 ]

\* Words the hooks load through an address.
HookMemory(addr) ==
    CASE addr = AddrOfFirstCustomScriptMenu -> FIRST_CUSTOM_SCRIPT_MENU
      [] addr = HookData.FIRST_CUSTOM_OPCODE -> FIRST_CUSTOM_OPCODE
      [] addr = HookData.keyboard_ptr -> HookData.keyboard
      [] OTHER -> 0

\* sizeof(struct custom_instruction) and sizeof(struct custom_menu) on the
\* 32-bit target: the 12 of "ldrge r8,=12" and the 16 of "lslpl r12,r12,#0x4".
InstructionSize == 12
MenuSize == 16

\* n_params of the entries of CUSTOM_INSTRUCTIONS: the two of the repository
\* and a third for a build that adds an instruction.
InstructionParams == << 6, 1, 0 >>

\* What the bytes behind the end of a table may hold.
BehindTheTable == { 0, 7 }

\* The values a load from base + offset can give: the first field of the
\* entry when the offset is that of an entry of the table, whatever lies
\* there when it is past the table, and the game's own data elsewhere.
LoadedFrom(base, offset) ==
    LET o == ToSigned(offset) IN
    IF base = HookData.CUSTOM_INSTRUCTIONS
    THEN IF o >= 0 /\ o < InstructionSize * CUSTOM_INSTRUCTION_AMOUNT /\ o % InstructionSize = 0
         THEN { InstructionParams[(o \div InstructionSize) + 1] }
         ELSE BehindTheTable
    ELSE IF base = HookData.CUSTOM_MENUS
    THEN IF o >= 0 /\ o < MenuSize * CUSTOM_MENU_AMOUNT /\ o % MenuSize = 0
         THEN { MenuAt(o \div MenuSize).keyboard_prompt_string_id }
         ELSE BehindTheTable
    ELSE { 2 }

\* Further instruction shapes of the hooks.
CmpR(rn, rm, replay) == Ins("cmp", "al", rm, rn, 0, {}, "", "", replay)
SubR(rd, rn, rm)     == Ins("sub", "al", rd, rn, 0, { rm }, "", "", FALSE)
MovC(cond, rd, rn)   == Ins("mov", cond, rd, rn, 0, {}, "", "", FALSE)
MovIC(cond, rd, imm) == Ins("movi", cond, rd, "", imm, {}, "", "", FALSE)
LdrR(rd, rn)         == Ins("ldr", "al", rd, rn, 0, {}, "", "", FALSE)
LdrC(cond, rd, rn)   == Ins("ldr", cond, rd, rn, 0, {}, "", "", FALSE)
Arith(op, cond, rd, rn, rm) == Ins(op, cond, rd, rn, 0, { rm }, "", "", FALSE)
ArithI(op, cond, rd, rn, imm) == Ins(op, cond, rd, rn, imm, {}, "", "", FALSE)
Bx(rn)               == Ins("bx", "al", "", rn, 0, {}, "", "", FALSE)

\* HookOpcodeCheck with the test against the wrong register (r0, the
\* operand of the displaced comparison).
HookOpcodeCheckWrongOperand ==
    << CmpR("r5", "r0", FALSE),
       B("ge", "NewInstructions", ""),
       CmpR("r5", "r0", TRUE),
       B("al", "OpcodeCheck+4", "") >>

\* HookOpcodeCheck
HookOpcodeCheck ==
    << CmpR("r5", "r7", FALSE),
       B("ge", "NewInstructions", ""),
       CmpR("r5", "r0", TRUE),
       B("al", "OpcodeCheck+4", "") >>

\* NewInstructions
NewInstructions ==
    << SubR("r5", "r5", "r7"),
       Mov("r0", "r5", ""),      \* Opcode (offset from FIRST_CUSTOM_OPCODE)
       Mov("r1", "r4", ""),      \* Current script routine pointer
       Mov("r2", "r6", ""),      \* Argument list
       Bl("DispatchCustomInstruction", ""),
       B("al", "ScriptEngineReturnTwo", "") >>

\* HookKeyboardCheck with the two conditional moves exchanged.
HookKeyboardCheckSwapped ==
    << LdrLit("al", "r12", AddrOfFirstCustomScriptMenu, ""),
       LdrR("r12", "r12"),
       Mov("r8", "r0", ""),
       CmpR("r0", "r12", FALSE),
       MovC("ge", "r6", "r0"),
       MovIC("lt", "r6", 3),
       Bx("lr") >>

\* HookKeyboardCheck
HookKeyboardCheck ==
    << LdrLit("al", "r12", AddrOfFirstCustomScriptMenu, ""),
       LdrR("r12", "r12"),
       Mov("r8", "r0", ""),
       CmpR("r0", "r12", FALSE),
       MovC("lt", "r6", "r0"),
       MovIC("ge", "r6", 3),
       Bx("lr") >>

\* HookGetParameterCount: for a custom opcode r0 and r1 are made the table
\* and the byte offset of its entry; the ldrsb the patch displaced then reads
\* the parameter count from there (from the game's own table otherwise).
HookGetParameterCount ==
    << LdrLit("al", "r7", HookData.FIRST_CUSTOM_OPCODE, ""),
       LdrR("r7", "r7"),
       CmpR("r5", "r7", FALSE),
       LdrLit("ge", "r0", HookData.CUSTOM_INSTRUCTIONS, ""),
       Arith("sub", "ge", "r1", "r5", "r7"),
       LdrLit("ge", "r8", InstructionSize, ""),
       Arith("mul", "ge", "r8", "r1", "r8"),
       MovC("ge", "r1", "r8"),
       Arith("ldrsb", "al", "r0", "r0", "r1"),
       Bx("lr") >>

\* HookKeyboardCustomPrompt (REGION_NA): for a menu ID of 80 or more the
\* prompt string of its entry is stored into the game's keyboard data.
HookKeyboardCustomPrompt ==
    << LdrLit("al", "r12", AddrOfFirstCustomScriptMenu, ""),
       LdrR("r12", "r12"),
       Arith("subs", "al", "r12", "r8", "r12"),
       LdrLit("pl", "r2", HookData.CUSTOM_MENUS, ""),
       ArithI("lsl", "pl", "r12", "r12", 4),
       Arith("ldrh", "pl", "r12", "r2", "r12"),
       LdrC("pl", "r0", "r1"),
       ArithI("add", "pl", "r0", "r0", 256),
       ArithI("strh", "pl", "r12", "r0", 166),
       B("al", "ShowKeyboardTypeDefaultCase", "") >>

Hooks == { "opcode", "keyboard", "parameters", "prompt" }

\* The instructions of a hook; NewInstructions follows HookOpcodeCheck so
\* that the branch between them stays inside the sequence.
HookProgram(h) ==
    CASE h = "opcode"     -> HookOpcodeCheck \o NewInstructions
      [] h = "keyboard"   -> HookKeyboardCheck
      [] h = "parameters" -> HookGetParameterCount
      [] h = "prompt"     -> HookKeyboardCustomPrompt

\* Position of a label inside the running sequence (0: the label is outside).
HookLabel(h, l) ==
    IF h = "opcode" /\ l = "NewInstructions" THEN Len(HookOpcodeCheck) + 1 ELSE 0

HookInit ==
    /\ hk = ""
    /\ hkpc = 0
    /\ hkExit = ""
    /\ hkRegs = EntryRegs(0, 0, 0)
    /\ hkFlags = NoFlags
    /\ hkEntry = [ regs |-> EntryRegs(0, 0, 0), flags |-> NoFlags ]
    /\ hkCalls = << >>
    /\ hkReplays = 0
    /\ hkWait = FALSE
    /\ hkAccess = << >>

\* Opcodes of script instructions (16-bit in the game, so never negative).
Opcodes == { 0, 1, FIRST_CUSTOM_OPCODE - 1, FIRST_CUSTOM_OPCODE,
             FIRST_CUSTOM_OPCODE + 1, FIRST_CUSTOM_OPCODE + 2,
             FIRST_CUSTOM_OPCODE + 3, FIRST_CUSTOM_OPCODE + 5 }

\* Menu IDs the keyboard code is asked for (an int: -1 is the last word).
KeyboardIds == { 0, 3, 79, 80, 81, 82, 83, Wrap(-1) }

HookEntered(h, rf, fl) ==
    /\ hk = ""
    /\ hk' = h
    /\ hkpc' = 1
    /\ hkExit' = ""
    /\ hkRegs' = rf
    /\ hkFlags' = fl
    /\ hkEntry' = [ regs |-> rf, flags |-> fl ]
    /\ hkCalls' = << >>
    /\ hkReplays' = 0
    /\ hkWait' = FALSE
    /\ hkAccess' = << >>

\* The script engine reaches the patched opcode check: r5 holds the opcode,
\* r0 the value the displaced cmp compares it with, r4 the routine, r6 the
\* argument list, and r7 still FIRST_CUSTOM_OPCODE as HookGetParameterCount
\* loaded it (ldr r7,=FIRST_CUSTOM_OPCODE; ldr r7,[r7]).
EnterOpcodeHook ==
    \E opcode \in Opcodes, r0 \in { 1, 400 }, v \in 0..MaxVariant, z \in BOOLEAN :
      HookEntered("opcode",
                  [ EntryRegs(r0, 0, v) EXCEPT !["r5"] = opcode,
                                               !["r7"] = FIRST_CUSTOM_OPCODE,
                                               !["r4"] = 1 + v,
                                               !["r6"] = 2 - v ],
                  [ N |-> FALSE, Z |-> z, C |-> z, V |-> FALSE ])

\* The keyboard code reaches the patched menu-type check: r0 holds the menu
\* ID and lr the return address.
EnterKeyboardHook ==
    \E id \in KeyboardIds, v \in 0..MaxVariant :
      HookEntered("keyboard",
                  [ EntryRegs(id, 0, v) EXCEPT !["lr"] = CodeAddr(100 + v) ],
                  NoFlags)

\* Where the game keeps the parameter counts of its own opcodes.
AddrOfGameParameterCounts == 256

\* The script engine fetches the parameter count of the opcode in r5: r0 and
\* r1 hold the game's table and the offset of the opcode in it.
EnterParameterCountHook ==
    \E opcode \in Opcodes, v \in 0..MaxVariant :
      HookEntered("parameters",
                  [ EntryRegs(AddrOfGameParameterCounts, opcode % 8, v)
                      EXCEPT !["r5"] = opcode, !["lr"] = CodeAddr(100 + v) ],
                  NoFlags)

\* The IDs SetupKeyboard is called with: the game's own, and the ID of the
\* custom keyboard menu whose create function has just run
\* (SetupKeyboard(GLOBAL_MENU_INFO.id, ...)).
PromptIds ==
    { 0, 3, FIRST_CUSTOM_SCRIPT_MENU - 1 }
      \cup (IF /\ menuPhase = "active" /\ menuRun.frames = 0
               /\ ~CustomMenuIsOutOfRange(GLOBAL_MENU_INFO.id - FIRST_CUSTOM_SCRIPT_MENU)
               /\ MenuAt(GLOBAL_MENU_INFO.id - FIRST_CUSTOM_SCRIPT_MENU).create
                    = "CreateSimpleKeyboardMenu"
            THEN { GLOBAL_MENU_INFO.id } ELSE {})

\* ShowKeyboard reaches the patched default case of its switch: r8 holds the
\* menu ID as HookKeyboardCheck left it, r1 the place of the pointer to the
\* keyboard data.
EnterPromptHook ==
    \E id \in PromptIds, v \in 0..MaxVariant :
      HookEntered("prompt",
                  [ EntryRegs(0, HookData.keyboard_ptr, v) EXCEPT !["r8"] = id ],
                  NoFlags)

HookCur == HookProgram(hk)[hkpc]

\* One instruction other than bl.  A load through a register pair gives one
\* of the values LoadedFrom allows and is recorded, as is a store.
HookStep ==
    /\ hk # "" /\ hkpc > 0 /\ ~hkWait
    /\ HookCur.op # "bl"
    /\ LET i    == HookCur
           run  == CondHolds(i.cond, hkFlags)
           rm   == CHOOSE r \in i.list : TRUE
           load == run /\ i.op \in { "ldrsb", "ldrh" }
           diff == Wrap(hkRegs[i.rn] - hkRegs[rm])
       IN
       /\ \E v \in IF load THEN LoadedFrom(hkRegs[i.rn], hkRegs[rm]) ELSE { 0 } :
            hkRegs' =
              IF ~run THEN hkRegs
              ELSE CASE i.op = "mov"    -> [ hkRegs EXCEPT ![i.rd] = hkRegs[i.rn] ]
                     [] i.op = "movi"   -> [ hkRegs EXCEPT ![i.rd] = i.imm ]
                     [] i.op = "ldrlit" -> [ hkRegs EXCEPT ![i.rd] = i.imm ]
                     [] i.op = "ldr"    -> [ hkRegs EXCEPT ![i.rd] = HookMemory(hkRegs[i.rn]) ]
                     [] i.op \in { "sub", "subs" } -> [ hkRegs EXCEPT ![i.rd] = diff ]
                     [] i.op = "mul"    -> [ hkRegs EXCEPT ![i.rd] = Wrap(hkRegs[i.rn] * hkRegs[rm]) ]
                     [] i.op = "lsl"    -> [ hkRegs EXCEPT ![i.rd] = Wrap(hkRegs[i.rn] * 2^(i.imm)) ]
                     [] i.op = "add"    -> [ hkRegs EXCEPT ![i.rd] = Wrap(hkRegs[i.rn] + i.imm) ]
                     [] load            -> [ hkRegs EXCEPT ![i.rd] = v ]
                     [] OTHER           -> hkRegs
       /\ hkFlags' = IF run /\ i.op = "cmp"
                     THEN CmpFlags(hkRegs[i.rn], hkRegs[i.rd])
                     ELSE IF run /\ i.op = "subs"
                     THEN CmpFlags(hkRegs[i.rn], hkRegs[rm])
                     ELSE hkFlags
       /\ hkAccess' =
            IF load
            THEN Append(hkAccess, [ kind |-> "read", base |-> hkRegs[i.rn],
                                    offset |-> ToSigned(hkRegs[rm]) ])
            ELSE IF run /\ i.op = "strh"
            THEN Append(hkAccess, [ kind |-> "write", base |-> hkRegs[i.rn],
                                    offset |-> i.imm, value |-> hkRegs[i.rd] ])
            ELSE hkAccess
       /\ hkReplays' = IF run /\ i.replay THEN hkReplays + 1 ELSE hkReplays
       /\ IF run /\ i.op = "b" /\ HookLabel(hk, i.tgt) > 0
          THEN hkpc' = HookLabel(hk, i.tgt) /\ UNCHANGED hkExit
          ELSE IF run /\ i.op = "b"
          THEN hkpc' = 0 /\ hkExit' = i.tgt
          ELSE IF run /\ i.op = "bx"
          THEN hkpc' = 0 /\ hkExit' = "lr"
          ELSE hkpc' = hkpc + 1 /\ UNCHANGED hkExit
    /\ UNCHANGED << hk, hkEntry, hkCalls, hkWait >>

\* bl DispatchCustomInstruction: the C function starts with r0, r1, r2 as
\* its index (a signed int), routine and args.
HookCall ==
    /\ hk # "" /\ hkpc > 0 /\ ~hkWait
    /\ HookCur.op = "bl"
    /\ Begin(HookCur.tgt, ToSigned(hkRegs["r0"]), 0, hkRegs["r1"], hkRegs["r2"],
             "bounds_check")
    /\ hkCalls' = Append(hkCalls, << HookCur.tgt, hkRegs["r0"], hkRegs["r1"],
                                     hkRegs["r2"] >>)
    /\ hkWait' = TRUE
    /\ UNCHANGED << hk, hkpc, hkExit, hkRegs, hkFlags, hkEntry, hkReplays, hkAccess >>

\* The called function has returned: r0-r3, r12 and the flags hold what it
\* left there, lr the return address or junk.
HookCallReturns ==
    /\ hkWait
    /\ dpc = "idle"
    /\ \E j \in 1..MaxJunk, keepLr \in BOOLEAN :
         /\ hkRegs' = [ r \in Regs |->
                          CASE r \in { "r0", "r1", "r2", "r3", "r12" } -> Junk(j)
                            [] r = "lr" -> IF keepLr THEN CodeAddr(hkpc + 1) ELSE Junk(j)
                            [] OTHER -> hkRegs[r] ]
         /\ hkFlags' = [ N |-> j % 2 = 0, Z |-> j % 2 = 1, C |-> TRUE, V |-> FALSE ]
    /\ hkWait' = FALSE
    /\ hkpc' = hkpc + 1
    /\ UNCHANGED << hk, hkExit, hkEntry, hkCalls, hkReplays, hkAccess >>

\* Control has left the hook; the game runs on until a hook is reached again.
HookLeaves ==
    /\ hk # "" /\ hkpc = 0
    /\ hk' = ""
    /\ hkExit' = ""
    /\ hkRegs' = EntryRegs(0, 0, 0)
    /\ hkFlags' = NoFlags
    /\ hkEntry' = [ regs |-> EntryRegs(0, 0, 0), flags |-> NoFlags ]
    /\ hkCalls' = << >>
    /\ hkReplays' = 0
    /\ hkAccess' = << >>
    /\ UNCHANGED << hkpc, hkWait >>

(***************************************************************************)
(* The example patch of patches/patch.asm: a branch to CustomGetMovePower  *)
(* written over the first instruction of the game's GetMovePower.          *)
(***************************************************************************)
VARIABLES
    gpPatched,  \* whether the image carries the branch at GetMovePower
    gpPc,       \* where the game is: "game", "GetMovePower",
                \* "CustomGetMovePower", "GetMovePower+4", "lost"
    gpRegs,     \* r0, r1 and lr
    gpCall,     \* the call being served: arguments and return address
    gpRan,      \* function bodies run for the call, with the lr each found
    gpLog       \* lines given to LogMessage during the call

gmpVars == << gpPatched, gpPc, gpRegs, gpCall, gpRan, gpLog >>

\* Places in the game from which GetMovePower is called.
CallSites == { 200, 201 }

\* The address of GetMovePower (overlay 29) in the model's code space.
AddrOfGetMovePower == CodeAddr(300)

\* RandRange(x, y) of the game answers with an integer of [x, y).
RandRange(x, y) == x .. (y - 1)

\* Entities and moves are named by small numbers; a move's own power is what
\* the game's GetMovePower body would answer.
MovePowers == { 0, 40 }

NoGmpCall == [ entity |-> 0, move |-> 0, ret |-> 0 ]

GmpInit ==
    /\ gpPatched \in BOOLEAN
    /\ gpPc = "game"
    /\ gpRegs = [ r0 |-> 0, r1 |-> 0, lr |-> 0 ]
    /\ gpCall = NoGmpCall
    /\ gpRan = << >>
    /\ gpLog = << >>

\* bl GetMovePower somewhere in the game: lr is the address after the call.
CallGetMovePower ==
    \E site \in CallSites, entity \in { 1, 2 }, move \in MovePowers :
      /\ gpPc = "game"
      /\ gpPc' = "GetMovePower"
      /\ gpRegs' = [ r0 |-> entity, r1 |-> move, lr |-> CodeAddr(site) + 4 ]
      /\ gpCall' = [ entity |-> entity, move |-> move, ret |-> CodeAddr(site) + 4 ]
      /\ gpRan' = << >>
      /\ gpLog' = << >>
      /\ UNCHANGED gpPatched

\* A bl in the place of the b: lr becomes the address after the patch.
PatchWithLink == Bl("CustomGetMovePower", "")

\* .org GetMovePower / b CustomGetMovePower
PatchAtGetMovePower == B("al", "CustomGetMovePower", "")

\* The first instruction of GetMovePower is executed: the branch of the patch
\* if it is installed, the game's own instruction otherwise.
GetMovePowerEntry ==
    /\ gpPc = "GetMovePower"
    /\ IF gpPatched
       THEN /\ gpPc' = PatchAtGetMovePower.tgt
            /\ gpRegs' = IF PatchAtGetMovePower.op = "bl"
                         THEN [ gpRegs EXCEPT !.lr = AddrOfGetMovePower + 4 ]
                         ELSE gpRegs
       ELSE /\ gpPc' = "GetMovePower+4"
            /\ UNCHANGED gpRegs
    /\ UNCHANGED << gpPatched, gpCall, gpRan, gpLog >>

\* Where a function that returns to the address ret ends up.
ReturnedTo(ret) ==
    IF ret = gpCall.ret THEN "game"
    ELSE IF ret = AddrOfGetMovePower + 4 THEN "GetMovePower+4"
    ELSE "lost"

\* int CustomGetMovePower(struct entity* entity, struct move* move)
CustomGetMovePower ==
    \E rolledPower \in RandRange(1, 100) :
      /\ gpPc = "CustomGetMovePower"
      /\ gpRan' = Append(gpRan, << "CustomGetMovePower", gpRegs.lr >>)
      /\ gpLog' = Append(gpLog, << gpRegs.r0, "Rolled move power %d!", rolledPower >>)
      /\ gpRegs' = [ gpRegs EXCEPT !.r0 = rolledPower ]
      /\ gpPc' = ReturnedTo(gpRegs.lr)
      /\ UNCHANGED << gpPatched, gpCall >>

\* The rest of the game's GetMovePower: answers the move's own power.
OriginalGetMovePower ==
    /\ gpPc = "GetMovePower+4"
    /\ gpRan' = Append(gpRan, << "GetMovePower", gpRegs.lr >>)
    /\ gpRegs' = [ gpRegs EXCEPT !.r0 = gpCall.move ]
    /\ gpPc' = IF gpRegs.lr = gpCall.ret THEN "game" ELSE "lost"
    /\ UNCHANGED << gpPatched, gpCall, gpLog >>

(***************************************************************************)
(* The logging and assertion macros of logging.h, used in a function body  *)
(* built with or without NDEBUG (build.ndebug).                            *)
(***************************************************************************)
VARIABLES
    lgBody,     \* the statements of the function body
    lgPc,       \* the statement about to be executed (Len + 1: returned)
    lgOut,      \* what DebugPrint has been given
    lgDone,     \* positions of the plain statements executed
    lgWaiting   \* inside WaitForever()

logVars == << lgBody, lgPc, lgOut, lgDone, lgWaiting >>

\* Statements of a function body the model tells apart.
MaxStatements == 3

LogMacros == { "COT_LOG", "COT_WARN", "COT_ERROR",
               "COT_LOGFMT", "COT_WARNFMT", "COT_ERRORFMT" }

\* DebugPrint(0, ...), DebugPrint(1, ...), DebugPrint(2, ...)
LogLevel(macro) ==
    CASE macro \in { "COT_LOG", "COT_LOGFMT" }     -> 0
      [] macro \in { "COT_WARN", "COT_WARNFMT" }   -> 1
      [] macro \in { "COT_ERROR", "COT_ERRORFMT" } -> 2

\* A statement: a log macro, COT_ASSERT(expr) with the value expr has when
\* it is reached, or a plain statement.
Statements ==
    [ kind : LogMacros \cup { "statement" }, expr : { TRUE } ]
      \cup [ kind : { "COT_ASSERT" }, expr : BOOLEAN ]

Bodies == UNION { [ 1..n -> Statements ] : n \in 1..MaxStatements }

NothingEmitted == [ print |-> << >>, wait |-> FALSE ]

\* #define COT_LOG(category, format) DebugPrint(0, ...) and the five others;
\* empty under NDEBUG.
LogExpansion(macro) ==
    IF build.ndebug THEN NothingEmitted
    ELSE [ print |-> << [ level |-> LogLevel(macro), what |-> "message" ] >>,
           wait |-> FALSE ]

\* An assertion that reports and then goes on.
AssertWithoutWait(expr) ==
    IF build.ndebug \/ expr THEN NothingEmitted
    ELSE [ print |-> << [ level |-> 2, what |-> "ASSERTION FAILED" ] >>,
           wait |-> FALSE ]

\* #define COT_ASSERT(expr) if (!(expr)) { DebugPrint(2, "ASSERTION FAILED:
\* ..."); WaitForever(); }   and   #define COT_ASSERT(expr)   under NDEBUG.
AssertExpansion(expr) ==
    IF build.ndebug \/ expr THEN NothingEmitted
    ELSE [ print |-> << [ level |-> 2, what |-> "ASSERTION FAILED" ] >>,
           wait |-> TRUE ]

Expansion(s) ==
    CASE s.kind = "COT_ASSERT" -> AssertExpansion(s.expr)
      [] s.kind \in LogMacros  -> LogExpansion(s.kind)
      [] OTHER                 -> NothingEmitted

LogInit ==
    /\ lgBody \in Bodies
    /\ lgPc = 1
    /\ lgOut = << >>
    /\ lgDone = << >>
    /\ lgWaiting = FALSE

\* The next statement of the body is executed.
ExecuteStatement ==
    /\ ~lgWaiting
    /\ lgPc <= Len(lgBody)
    /\ lgOut' = lgOut \o Expansion(lgBody[lgPc]).print
    /\ lgWaiting' = Expansion(lgBody[lgPc]).wait
    /\ lgDone' = IF lgBody[lgPc].kind = "statement"
                 THEN Append(lgDone, lgPc) ELSE lgDone
    /\ lgPc' = IF Expansion(lgBody[lgPc]).wait THEN lgPc ELSE lgPc + 1
    /\ UNCHANGED lgBody

\* WaitForever(): the game's endless loop.
WaitForever ==
    /\ lgWaiting
    /\ UNCHANGED logVars

(***************************************************************************)
(* The image patcher of the build (make patch): apply(image, operations).  *)
(* An image is given by the bytes a run has written, by file offset; every *)
(* other byte of the file is the byte of the pristine image.               *)
(***************************************************************************)
VARIABLES
    imOps,      \* the operations of the run, in the order they are applied
    imPhase,    \* "ready": about to run; "ran": apply has returned
    imResult,   \* what the last run of apply returned
    imFirst     \* what the first run, on the list as it was parsed, returned

imVars == << imOps, imPhase, imResult, imFirst >>

\* Operations in one patch run.
MaxOperations == 3

\* The region table of the image: where a region is loaded, how long it is
\* and where its bytes start in the file.
RegionTable ==
    [ alpha |-> [ loadBase |-> 4096, length |-> 4096, fileBase |-> 512 ],
      beta  |-> [ loadBase |-> 8192, length |-> 8,    fileBase |-> 4608 ] ]

\* The symbol Foo: region alpha, address 0x1000.
Foo == [ region |-> "alpha", address |-> 4096 ]

\* Targets of patch operations: around Foo, at the end of alpha, before its
\* start, in the short region beta and in a region the image does not have.
Targets ==
    { [ region |-> Foo.region, address |-> Foo.address + d, len |-> 4 ] :
          d \in { -2, 0, 2, 4, 4092, 4094 } }
      \cup { [ region |-> "beta", address |-> 8192 + d, len |-> 4 ] : d \in { 4, 6 } }
      \cup { [ region |-> "gamma", address |-> 4096, len |-> 4 ] }

\* The operation parsed from line i of the patch text: its bytes are the
\* instruction assembled for that line.
Operation(i, t) ==
    [ region |-> t.region, address |-> t.address,
      bytes |-> [ k \in 1..t.len |-> 16 * i + k ] ]

OperationLists ==
    UNION { { [ i \in 1..n |-> Operation(i, ts[i]) ] : ts \in [ 1..n -> Targets ] } :
            n \in 1..MaxOperations }

PristineImage == << >>

\* The offset within the region taken for the offset within the file.
FileOffsetWithoutFileBase(op) == op.address - RegionTable[op.region].loadBase

\* fileOffset = region.fileBase + (operation.address - region.loadBase)
FileOffset(op) ==
    RegionTable[op.region].fileBase + (op.address - RegionTable[op.region].loadBase)

\* The bytes of the file an operation covers: [lo, hi).
Span(op) == [ lo |-> FileOffset(op), hi |-> FileOffset(op) + Len(op.bytes) ]

KnownRegion(op) == op.region \in DOMAIN RegionTable

\* A check of the first byte only.
InFileExtentStartOnly(op) ==
    /\ Span(op).lo >= RegionTable[op.region].fileBase
    /\ Span(op).lo < RegionTable[op.region].fileBase + RegionTable[op.region].length

\* fileOffset .. fileOffset+len stays within the region's file extent
InFileExtent(op) ==
    /\ Span(op).lo >= RegionTable[op.region].fileBase
    /\ Span(op).hi <= RegionTable[op.region].fileBase + RegionTable[op.region].length

\* Spans taken to collide only when they start at the same byte.
SpansIntersectSameStart(a, b) == a.lo = b.lo

SpansIntersect(a, b) == a.lo < b.hi /\ b.lo < a.hi

\* Validation of the operations from position i on, in list order, against
\* the running set of spans: the first failure is the run's error.
RECURSIVE Validation(_, _, _)
Validation(ops, i, spans) ==
    IF i > Len(ops) THEN "ok"
    ELSE IF ~KnownRegion(ops[i]) THEN "UnknownRegion"
    ELSE IF ~InFileExtent(ops[i]) THEN "OutOfBounds"
    ELSE IF \E s \in spans : SpansIntersect(s, Span(ops[i])) THEN "Overlap"
    ELSE Validation(ops, i + 1, spans \cup { Span(ops[i]) })

\* A write that runs one byte past the instruction.
WriteOneByteMore(image, op) ==
    [ o \in DOMAIN image \cup (Span(op).lo .. Span(op).hi) |->
        IF o \in Span(op).lo .. (Span(op).hi - 1) THEN op.bytes[o - Span(op).lo + 1]
        ELSE IF o = Span(op).hi THEN 0
        ELSE image[o] ]

\* Overwrite bytes in place.
WriteOperation(image, op) ==
    [ o \in DOMAIN image \cup (Span(op).lo .. (Span(op).hi - 1)) |->
        IF o \in Span(op).lo .. (Span(op).hi - 1) THEN op.bytes[o - Span(op).lo + 1]
        ELSE image[o] ]

RECURSIVE WriteAll(_, _, _)
WriteAll(image, ops, i) ==
    IF i > Len(ops) THEN image
    ELSE WriteAll(WriteOperation(image, ops[i]), ops, i + 1)

\* A patcher that writes the first operation before it has validated the rest.
applyWritingAsItGoes(image, ops) ==
    IF Validation(ops, 1, {}) = "ok"
    THEN [ status |-> "ok", image |-> WriteAll(image, ops, 1) ]
    ELSE [ status |-> Validation(ops, 1, {}),
           image |-> IF Validation(SubSeq(ops, 1, 1), 1, {}) = "ok"
                     THEN WriteOperation(image, ops[1]) ELSE image ]

\* apply(image, operations) -> PatchedImage | Error(OutOfBounds | Overlap |
\* UnknownRegion): all operations are validated, then all are written.
apply(image, ops) ==
    IF Validation(ops, 1, {}) = "ok"
    THEN [ status |-> "ok", image |-> WriteAll(image, ops, 1) ]
    ELSE [ status |-> Validation(ops, 1, {}), image |-> image ]

NoRun == [ status |-> "none", image |-> PristineImage ]

ImInit ==
    /\ imOps \in OperationLists
    /\ imPhase = "ready"
    /\ imResult = NoRun
    /\ imFirst = NoRun

\* One run of the patcher on the pristine image.
RunApply ==
    /\ imPhase = "ready"
    /\ imPhase' = "ran"
    /\ imResult' = apply(PristineImage, imOps)
    /\ imFirst' = IF imFirst = NoRun THEN apply(PristineImage, imOps) ELSE imFirst
    /\ UNCHANGED imOps

\* The same operations are put in another order for an independent run.
ReorderOperations ==
    \E i \in 1..(Len(imOps) - 1) :
      /\ imPhase = "ran"
      /\ imPhase' = "ready"
      /\ imOps' = [ imOps EXCEPT ![i] = imOps[i + 1], ![i + 1] = imOps[i] ]
      /\ imResult' = NoRun
      /\ UNCHANGED imFirst

(***************************************************************************)
(* The symbol resolver of the build: resolve(autoTable, userTable) merges  *)
(* symbols/generated_[region].ld with symbols/custom_[region].ld.          *)
(***************************************************************************)
VARIABLES
    rsAuto,     \* the auto-generated table: (name, region, address) triples
    rsUser,     \* the user-supplied table
    rsResult    \* what resolve returned ("none" before it has run)

rsVars == << rsAuto, rsUser, rsResult >>

\* Entries in one input table.
MaxSymbols == 2

SymbolNames == { "Foo", "Bar" }

\* Region markers ("!file ..."): a region of the image and one it lacks.
RegionMarkers == { "alpha", "gamma" }

AutoEntries ==
    [ name : SymbolNames, region : RegionMarkers, address : { 4096, 4104 } ]

UserEntries ==
    [ name : SymbolNames, region : RegionMarkers, address : { 4100 } ]

TablesOf(entries) == UNION { [ 1..n -> entries ] : n \in 0..MaxSymbols }

\* Only a repeated triple taken for a collision.
HasDuplicateSameEntry(table) ==
    \E i, j \in 1..Len(table) : i < j /\ table[i] = table[j]

\* The same name defined twice in one table.
HasDuplicate(table) ==
    \E i, j \in 1..Len(table) : i < j /\ table[i].name = table[j].name

HasUnknownRegion(table) ==
    \E i \in 1..Len(table) : table[i].region \notin DOMAIN RegionTable

NamesOf(table) == { table[i].name : i \in 1..Len(table) }

EntryOf(table, name) == table[CHOOSE i \in 1..Len(table) : table[i].name = name]

\* A merge in which the auto-generated entry is kept.
resolveAutoWins(autoTable, userTable) ==
    IF HasDuplicate(autoTable) \/ HasDuplicate(userTable)
    THEN [ status |-> "DuplicateSymbol", table |-> << >> ]
    ELSE IF HasUnknownRegion(autoTable) \/ HasUnknownRegion(userTable)
    THEN [ status |-> "UnknownRegion", table |-> << >> ]
    ELSE [ status |-> "ok",
           table |-> [ n \in NamesOf(autoTable) \cup NamesOf(userTable) |->
                         IF n \in NamesOf(autoTable) THEN EntryOf(autoTable, n)
                         ELSE EntryOf(userTable, n) ] ]

\* resolve(autoTable, userTable) -> SymbolTable | Error(DuplicateSymbol |
\* UnknownRegion): user entries override auto entries of the same name.
resolve(autoTable, userTable) ==
    IF HasDuplicate(autoTable) \/ HasDuplicate(userTable)
    THEN [ status |-> "DuplicateSymbol", table |-> << >> ]
    ELSE IF HasUnknownRegion(autoTable) \/ HasUnknownRegion(userTable)
    THEN [ status |-> "UnknownRegion", table |-> << >> ]
    ELSE [ status |-> "ok",
           table |-> [ n \in NamesOf(autoTable) \cup NamesOf(userTable) |->
                         IF n \in NamesOf(userTable) THEN EntryOf(userTable, n)
                         ELSE EntryOf(autoTable, n) ] ]

NotResolved == [ status |-> "none", table |-> << >> ]

RsInit ==
    /\ rsAuto \in TablesOf(AutoEntries)
    /\ rsUser \in TablesOf(UserEntries)
    /\ rsResult = NotResolved

\* The build resolves its two tables.
RunResolve ==
    /\ rsResult = NotResolved
    /\ rsResult' = resolve(rsAuto, rsUser)
    /\ UNCHANGED << rsAuto, rsUser >>

(***************************************************************************)
(* The overlay injector of the build: inject(image, compiledBlob, region,  *)
(* budget) copies the linked binary into the common area of overlay 36     *)
(* (linker region out).                                                    *)
(***************************************************************************)
VARIABLES
    ijImage,    \* the image handed to inject
    ijBlob,     \* the compiled blob, a sequence of bytes
    ijResult    \* what inject returned ("none" before it has run)

ijVars == << ijImage, ijBlob, ijResult >>

\* Bytes the reserved slot holds (LENGTH of the linker region, scaled down).
SlotBudget == 4

\* The slot: where its bytes start in the file.
Slot == [ fileBase |-> 5120 ]

\* Blobs up to two bytes larger than the slot.
Blobs == UNION { [ 1..n -> { 1, 2 } ] : n \in 0..(SlotBudget + 2) }

\* Images inject is handed: the pristine one, one apply has patched at
\* Foo+4, and one whose slot holds an earlier, full-size blob.
InputImages ==
    { PristineImage,
      [ o \in 516..519 |-> 16 + (o - 515) ],
      [ o \in Slot.fileBase .. (Slot.fileBase + SlotBudget - 1) |-> 9 ] }

\* An injector that cuts the blob to the size of the slot.
injectTruncated(image, blob, region, budget) ==
    [ status |-> "ok",
      image |-> [ o \in DOMAIN image
                        \cup (region.fileBase .. (region.fileBase + budget - 1)
                                \cap region.fileBase .. (region.fileBase + Len(blob) - 1)) |->
                    IF o >= region.fileBase /\ o < region.fileBase + Len(blob)
                    THEN blob[o - region.fileBase + 1] ELSE image[o] ] ]

\* inject(image, compiledBlob, region, budget) -> PatchedImage |
\* Error(BudgetExceeded): a straight byte copy into the slot's file offset.
inject(image, blob, region, budget) ==
    IF Len(blob) > budget
    THEN [ status |-> "BudgetExceeded", image |-> image ]
    ELSE [ status |-> "ok",
           image |-> [ o \in DOMAIN image
                             \cup (region.fileBase .. (region.fileBase + Len(blob) - 1)) |->
                         IF o >= region.fileBase /\ o < region.fileBase + Len(blob)
                         THEN blob[o - region.fileBase + 1] ELSE image[o] ] ]

NotInjected == [ status |-> "none", image |-> PristineImage ]

IjInit ==
    /\ ijImage \in InputImages
    /\ ijBlob \in Blobs
    /\ ijResult = NotInjected

\* The build injects its binary.
RunInject ==
    /\ ijResult = NotInjected
    /\ ijResult' = inject(ijImage, ijBlob, Slot, SlotBudget)
    /\ UNCHANGED << ijImage, ijBlob >>

(***************************************************************************)
(* The example effects: the Elixir item and the Body Press move, called    *)
(* by the effect dispatchers with the user, the target and the item or     *)
(* move being used.                                                        *)
(***************************************************************************)
VARIABLES
    efUser,     \* the entity using the item or move
    efTarget,   \* the entity it is used on
    efData,     \* the move_effect_input of the call
    efCall,     \* the last call: function, ID, and the three as they were
    efRet,      \* what it returned
    efDamage,   \* the DealDamage calls it made: the user's atk and def then
    efLog       \* lines given to the log

efVars == << efUser, efTarget, efData, efCall, efRet, efDamage, efLog >>

\* enum item_id / enum move_id of the game.
ITEM_MAX_ELIXIR == 99
MOVE_SCRATCH == 260

\* Width of the pp, atk and def fields (uint8_t).
ByteMod == 256

\* uint8_t GetMaxPp(struct move*): by the move's ID here.
GetMaxPp(move) == IF move.id = 1 THEN 35 ELSE 15

\* Moves a monster may know: an ID and the PP left (one above its maximum).
MovePool == { [ id |-> 1, pp |-> 0 ], [ id |-> 1, pp |-> 30 ],
              [ id |-> 2, pp |-> 5 ], [ id |-> 2, pp |-> 20 ] }

\* The four moves of a target: any two of the pool and two fixed ones.
MoveSets == { << a, b, [ id |-> 2, pp |-> 5 ], [ id |-> 2, pp |-> 20 ] >> :
                a \in MovePool, b \in MovePool }

\* The loop body with the comparison against max_pp left out.
RefilledPpUncapped(move) == (move.pp + 10) % ByteMod

\* int new_pp = current_move->pp + 10; if (new_pp > max_pp) new_pp = max_pp;
\* current_move->pp = new_pp;
RefilledPp(move) ==
    LET max_pp == GetMaxPp(move) % ByteMod
        new_pp == move.pp + 10
    IN  (IF new_pp > max_pp THEN max_pp ELSE new_pp) % ByteMod

\* static void ItemElixir(struct entity* target)
ItemElixir(target) ==
    IF target.type = "ENTITY_MONSTER"
    THEN [ target EXCEPT !.moves =
             [ i \in 1..4 |-> [ target.moves[i] EXCEPT !.pp = RefilledPp(target.moves[i]) ] ] ]
    ELSE target

\* The Elixir effect given to every item.
CustomApplyItemEffectForEveryItem(id, target) ==
    [ handled |-> TRUE, target |-> ItemElixir(target) ]

\* bool CustomApplyItemEffect(user, target, item, is_thrown): the value
\* returned and the target afterwards.
CustomApplyItemEffect(id, target) ==
    IF id = ITEM_MAX_ELIXIR
    THEN [ handled |-> TRUE, target |-> ItemElixir(target) ]
    ELSE [ handled |-> FALSE, target |-> target ]

\* What one DealDamage call does as far as the caller can tell: the damage
\* it returns, and whether the user's atk was lowered during the call.
DamageOutcomes == [ result : { 0, 37 }, lowers : BOOLEAN ]

\* Body Press without the last assignment.
MoveBodyPressWithoutRestore(user, dd) ==
    IF user.type = "ENTITY_MONSTER"
    THEN LET during == [ user EXCEPT !.atk = user.def ]
             after  == [ during EXCEPT !.atk = IF dd.lowers /\ @ > 0 THEN @ - 1 ELSE @ ]
         IN  [ dealt_damage |-> dd.result # 0,
               user |-> after,
               calls |-> << [ atk |-> during.atk, def |-> during.def ] >> ]
    ELSE [ dealt_damage |-> FALSE, user |-> user, calls |-> << >> ]

\* static bool MoveBodyPress(user, target, move): atk is made def for the
\* DealDamage call and set back to old_attack after it.
MoveBodyPress(user, dd) ==
    IF user.type = "ENTITY_MONSTER"
    THEN LET old_attack == user.atk
             during == [ user EXCEPT !.atk = user.def ]
             after  == [ during EXCEPT !.atk = IF dd.lowers /\ @ > 0 THEN @ - 1 ELSE @ ]
         IN  [ dealt_damage |-> dd.result # 0,
               user |-> [ after EXCEPT !.atk = old_attack ],
               calls |-> << [ atk |-> during.atk, def |-> during.def ] >> ]
    ELSE [ dealt_damage |-> FALSE, user |-> user, calls |-> << >> ]

\* bool CustomApplyMoveEffect(data, user, target, move)
CustomApplyMoveEffect(data, user, dd) ==
    IF data.move_id = MOVE_SCRATCH
    THEN LET press == MoveBodyPress(user, dd) IN
         [ handled |-> TRUE,
           data |-> [ data EXCEPT !.out_dealt_damage = press.dealt_damage ],
           user |-> press.user, calls |-> press.calls ]
    ELSE [ handled |-> FALSE, data |-> data, user |-> user, calls |-> << >> ]

EntityTypes == { "ENTITY_MONSTER", "ENTITY_ITEM" }

ItemIds == { 0, ITEM_MAX_ELIXIR - 1, ITEM_MAX_ELIXIR, ITEM_MAX_ELIXIR + 1 }

MoveIds == { 0, MOVE_SCRATCH - 1, MOVE_SCRATCH, MOVE_SCRATCH + 1 }

NoEffectCall == [ fn |-> "", id |-> 0 ]

\* A dungeon in which an item or a move is about to be used.
EfInit ==
    /\ efUser \in [ type : EntityTypes, atk : { 10, 255 }, def : { 0, 40 },
                    moves : { [ i \in 1..4 |-> [ id |-> 1, pp |-> 0 ] ] } ]
    /\ efTarget \in [ type : EntityTypes, atk : { 10 }, def : { 40 },
                      moves : MoveSets ]
    /\ efData = [ move_id |-> 0, item_id |-> 0, out_dealt_damage |-> FALSE ]
    /\ efCall = NoEffectCall
    /\ efRet = FALSE
    /\ efDamage = << >>
    /\ efLog = << >>

\* The item-effect dispatcher calls CustomApplyItemEffect.
CallCustomApplyItemEffect ==
    \E id \in ItemIds :
      LET r == CustomApplyItemEffect(id, efTarget) IN
      /\ efCall' = [ fn |-> "CustomApplyItemEffect", id |-> id, user |-> efUser,
                     target |-> efTarget, data |-> efData ]
      /\ efLog' = Logged(<< >>, 0, "Running item effect", id)
      /\ efRet' = r.handled
      /\ efTarget' = r.target
      /\ efDamage' = << >>
      /\ UNCHANGED << efUser, efData >>

\* The move-effect dispatcher calls CustomApplyMoveEffect with the input it
\* has filled in; out_dealt_damage holds whatever the caller left there.
CallCustomApplyMoveEffect ==
    \E id \in MoveIds, out \in BOOLEAN, dd \in DamageOutcomes :
      LET data == [ move_id |-> id, item_id |-> 0, out_dealt_damage |-> out ]
          r    == CustomApplyMoveEffect(data, efUser, dd)
      IN
      /\ efCall' = [ fn |-> "CustomApplyMoveEffect", id |-> id, user |-> efUser,
                     target |-> efTarget, data |-> data,
                     dd |-> dd ]
      /\ efLog' = Logged(<< >>, 0, "Running move effect", id)
      /\ efRet' = r.handled
      /\ efData' = r.data
      /\ efUser' = r.user
      /\ efDamage' = r.calls
      /\ UNCHANGED efTarget

(***************************************************************************)
(* Beast Boost: CheckBeastBoost, called by TrampolineAfterApplyMoveEffect  *)
(* after a move's effect has been applied.                                 *)
(***************************************************************************)
VARIABLES
    bbCall,    \* the arguments of the last CheckBeastBoost call
    bbOut      \* what that call did: message logged, boosts applied, and the
               \* locals at the random pick

bbVars == << bbCall, bbOut >>

STAT_NONE == -1
STAT_ATK == 0
STAT_DEF == 1
STAT_SP_ATK == 2
STAT_SP_DEF == 3

ABILITY_UNNAMED_0x74 == 116

\* Values a stat of the user takes in the model.
StatValues == 1..MaxStat

\* AddToTiedStatList: put stat into the first free slot after slot 0.
AddToTiedStatList(stat, highest_stat_list) ==
    IF \E i \in 1..3 : highest_stat_list[i] = STAT_NONE
    THEN LET i == CHOOSE k \in 1..3 :
                    /\ highest_stat_list[k] = STAT_NONE
                    /\ \A m \in 1..(k - 1) : highest_stat_list[m] # STAT_NONE
         IN  [ highest_stat_list EXCEPT ![i] = stat ]
    ELSE highest_stat_list

\* The locals of CheckBeastBoost after `int highest_stat_val = ...->atk`.
StartWithAtk(atk) ==
    [ tied_stat_count |-> 1,
      highest_stats |-> [ i \in 0..3 |-> IF i = 0 THEN STAT_ATK ELSE STAT_NONE ],
      highest_stat_val |-> atk ]

\* The if / else-if on one stat, keeping the tied stats of the old maximum
\* in slots 1 to 3 when a greater value is found.
ConsiderStatKeepingTies(stat, val, l) ==
    IF val = l.highest_stat_val
    THEN [ l EXCEPT !.highest_stats = AddToTiedStatList(stat, @),
                    !.tied_stat_count = @ + 1 ]
    ELSE IF val > l.highest_stat_val
    THEN [ tied_stat_count |-> 1,
           highest_stats |-> [ l.highest_stats EXCEPT ![0] = stat ],
           highest_stat_val |-> val ]
    ELSE l

\* The if / else-if CheckBeastBoost runs on def, sp_atk and sp_def in turn.
ConsiderStat(stat, val, l) ==
    IF val = l.highest_stat_val
    THEN [ l EXCEPT !.highest_stats = AddToTiedStatList(stat, @),
                    !.tied_stat_count = @ + 1 ]
    ELSE IF val > l.highest_stat_val
    THEN [ tied_stat_count |-> 1,
           highest_stats |-> [ i \in 0..3 |-> IF i = 0 THEN stat ELSE STAT_NONE ],
           highest_stat_val |-> val ]
    ELSE l

\* The locals at `highest_stats[RandRange(0, tied_stat_count)]`.
LocalsAtPick(m) ==
    ConsiderStat(STAT_SP_DEF, m.sp_def,
        ConsiderStat(STAT_SP_ATK, m.sp_atk,
            ConsiderStat(STAT_DEF, m.def, StartWithAtk(m.atk))))

\* The switch on selected_stat: the game function called, with its
\* stat_idx and stages arguments.
BoostFor(selected_stat) ==
    CASE selected_stat = STAT_ATK    -> << [ fn |-> "BoostOffensiveStat", stat_idx |-> 0, stages |-> 1 ] >>
      [] selected_stat = STAT_DEF    -> << [ fn |-> "BoostDefensiveStat", stat_idx |-> 0, stages |-> 1 ] >>
      [] selected_stat = STAT_SP_ATK -> << [ fn |-> "BoostOffensiveStat", stat_idx |-> 1, stages |-> 1 ] >>
      [] selected_stat = STAT_SP_DEF -> << [ fn |-> "BoostDefensiveStat", stat_idx |-> 1, stages |-> 1 ] >>
      [] OTHER -> << >>

\* user == NULL: no entity at all.
NullUser ==
    [ type |-> "NULL", ability1 |-> 0, ability2 |-> 0,
      atk |-> 0, def |-> 0, sp_atk |-> 0, sp_def |-> 0 ]

NoBoost ==
    [ logged |-> FALSE, boosts |-> << >>, tied_stat_count |-> 0,
      highest_stats |-> << >>, selected_stat |-> STAT_NONE ]

\* Does CheckBeastBoost get as far as the message?
BeastBoostActivates(user, target_valid) ==
    /\ user # NullUser
    /\ user.type = "ENTITY_MONSTER"
    /\ ~(user.ability1 # ABILITY_UNNAMED_0x74 /\ user.ability2 # ABILITY_UNNAMED_0x74)
    /\ ~target_valid

\* CheckBeastBoost(user, target), with roll the answer of RandRange.
CheckBeastBoost(user, target_valid, roll) ==
    IF ~BeastBoostActivates(user, target_valid) THEN NoBoost
    ELSE LET l == LocalsAtPick(user)
             selected_stat == l.highest_stats[roll]
         IN  [ logged |-> TRUE,
               boosts |-> BoostFor(selected_stat),
               tied_stat_count |-> l.tied_stat_count,
               highest_stats |-> l.highest_stats,
               selected_stat |-> selected_stat ]

\* The users of a move: no entity, or an entity with two abilities and
\* four stats.
BeastUsers ==
    { NullUser } \cup
    [ type : { "ENTITY_MONSTER", "ENTITY_ITEM" },
      ability1 : { 0, ABILITY_UNNAMED_0x74 }, ability2 : { 0, ABILITY_UNNAMED_0x74 },
      atk : StatValues, def : StatValues, sp_atk : StatValues, sp_def : StatValues ]

NoBeastCall == [ user |-> NullUser, target_valid |-> TRUE ]

BbInit ==
    /\ bbCall = NoBeastCall
    /\ bbOut = NoBoost

\* TrampolineAfterApplyMoveEffect calls CheckBeastBoost(r9, r4).
CallCheckBeastBoost ==
    /\ bbCall = NoBeastCall
    /\ bbOut = NoBoost
    /\ \E user \in BeastUsers, target_valid \in BOOLEAN :
        /\ [ user |-> user, target_valid |-> target_valid ] # NoBeastCall
        /\ bbCall' = [ user |-> user, target_valid |-> target_valid ]
        /\ \E roll \in IF BeastBoostActivates(user, target_valid)
                       THEN RandRange(0, LocalsAtPick(user).tied_stat_count)
                       ELSE { 0 } :
               bbOut' = CheckBeastBoost(user, target_valid, roll)

\* The trampoline has its registers back and the game goes on to the next
\* move.
BeastBoostDone ==
    /\ bbCall # NoBeastCall
    /\ bbCall' = NoBeastCall
    /\ bbOut' = NoBoost

(***************************************************************************)
(* customGetMovePower of effects.c: the rolled power is formatted into a   *)
(* buffer on the stack with Sprintf, which knows no buffer size.           *)
(***************************************************************************)
VARIABLES
    fmCall,      \* the entity customGetMovePower was called with (0: no call)
    fmBuffer,    \* messageBuffer: offset -> character
    fmBeyond,    \* the characters Sprintf stored behind messageBuffer, in order
    fmOutcome,   \* what became of the call
    fmLog,       \* the text LogMessage was given
    fmRet        \* the value returned

fmVars == << fmCall, fmBuffer, fmBeyond, fmOutcome, fmLog, fmRet >>

\* char messageBuffer[20]
MessageBufferSize == 20

\* Characters are one-letter strings; NUL is the terminator Sprintf appends
\* and Fresh what a byte of the new stack frame holds before it is written.
NUL == "NUL"
Fresh == "?"

\* "Rolled move power %d!"
RolledFormat ==
    << "R", "o", "l", "l", "e", "d", " ", "m", "o", "v", "e", " ",
       "p", "o", "w", "e", "r", " ", "%", "d", "!" >>

DigitChars == << "0", "1", "2", "3", "4", "5", "6", "7", "8", "9" >>

\* %d: the decimal digits of n, with a minus sign for a negative n.
RECURSIVE Decimal(_)
Decimal(n) ==
    IF n < 0 THEN << "-" >> \o Decimal(-n)
    ELSE IF n < 10 THEN << DigitChars[n + 1] >>
    ELSE Decimal(n \div 10) \o << DigitChars[(n % 10) + 1] >>

\* The format with every %d replaced by the digits of arg.
RECURSIVE Expand(_, _)
Expand(format, arg) ==
    IF format = << >> THEN << >>
    ELSE IF Len(format) >= 2 /\ format[1] = "%" /\ format[2] = "d"
    THEN Decimal(arg) \o Expand(SubSeq(format, 3, Len(format)), arg)
    ELSE << format[1] >> \o Expand(Tail(format), arg)

\* Sprintf(buffer, format, arg): the characters it stores from buffer[0]
\* on, the terminating NUL last, however long the buffer is.
Sprintf(format, arg) == Expand(format, arg) \o << NUL >>

\* What storing behind the end of a stack buffer can lead to: the bytes
\* land in padding and nothing is seen, or in a register the function saved
\* for its caller, or in the saved return address.
AfterStoringBeyond == { "returned", "caller's register changed", "return address changed" }

FmInit ==
    /\ fmCall = 0
    /\ fmBuffer = [ k \in 0..(MessageBufferSize - 1) |-> Fresh ]
    /\ fmBeyond = << >>
    /\ fmOutcome = "none"
    /\ fmLog = << >>
    /\ fmRet = 0

\* int customGetMovePower(struct entity* entity, struct move* move)
customGetMovePower ==
    /\ fmCall = 0
    /\ \E entity \in 1..2, rolledPower \in RandRange(1, 100) :
         LET text == Sprintf(RolledFormat, rolledPower)
         IN  /\ fmCall' = entity
             /\ fmBuffer' = [ k \in 0..(MessageBufferSize - 1) |->
                                IF k < Len(text) THEN text[k + 1] ELSE Fresh ]
             /\ fmBeyond' = SubSeq(text, MessageBufferSize + 1, Len(text))
             /\ fmOutcome' \in IF Len(text) > MessageBufferSize
                               THEN AfterStoringBeyond ELSE { "returned" }
             /\ fmLog' = SubSeq(text, 1, Len(text) - 1)
             /\ fmRet' = rolledPower

\* The game uses the power and goes on; the stack frame is gone.
MovePowerUsed ==
    /\ fmCall # 0
    /\ fmCall' = 0
    /\ fmBuffer' = [ k \in 0..(MessageBufferSize - 1) |-> Fresh ]
    /\ fmBeyond' = << >>
    /\ fmOutcome' = "none"
    /\ fmLog' = << >>
    /\ fmRet' = 0

(***************************************************************************)
(* Specifications.  The trampolines, the C dispatchers and the script      *)
(* menus do not share state; each specification runs one of them and       *)
(* leaves the others as they start.                                        *)
(***************************************************************************)
vars == << trampVars, dispVars, menuVars, hookVars, gmpVars, logVars, imVars, rsVars, ijVars, efVars, bbVars, fmVars >>

\* The build the trampolines and menus are looked at in.
PlainBuild == [ rust |-> FALSE, ndebug |-> FALSE, amount |-> 2 ]

TrampOnly == UNCHANGED << dispVars, menuVars, hookVars, gmpVars, logVars, imVars, rsVars, ijVars, efVars, bbVars, fmVars >>

DispOnly == UNCHANGED << trampVars, menuVars, hookVars, gmpVars, logVars, imVars, rsVars, ijVars, efVars, bbVars, fmVars >>

MenuOnly == UNCHANGED << trampVars, dispVars, hookVars, gmpVars, logVars, imVars, rsVars, ijVars, efVars, bbVars, fmVars >>

HookOnly == UNCHANGED << trampVars, dispVars, menuVars, gmpVars, logVars, imVars, rsVars, ijVars, efVars, bbVars, fmVars >>

GmpOnly == UNCHANGED << trampVars, dispVars, menuVars, hookVars, logVars, imVars, rsVars, ijVars, efVars, bbVars, fmVars >>

LogOnly == UNCHANGED << trampVars, dispVars, menuVars, hookVars, gmpVars, imVars, rsVars, ijVars, efVars, bbVars, fmVars >>

ImOnly == UNCHANGED << trampVars, dispVars, menuVars, hookVars, gmpVars, logVars, rsVars, ijVars, efVars, bbVars, fmVars >>

RsOnly == UNCHANGED << trampVars, dispVars, menuVars, hookVars, gmpVars, logVars, imVars, ijVars, efVars, bbVars, fmVars >>

IjOnly == UNCHANGED << trampVars, dispVars, menuVars, hookVars, gmpVars, logVars, imVars, rsVars, efVars, bbVars, fmVars >>

BbOnly == UNCHANGED << trampVars, dispVars, menuVars, hookVars, gmpVars, logVars, imVars, rsVars, ijVars, efVars, fmVars >>

FmOnly == UNCHANGED << trampVars, dispVars, menuVars, hookVars, gmpVars, logVars, imVars, rsVars, ijVars, efVars, bbVars >>

EfOnly == UNCHANGED << trampVars, dispVars, menuVars, hookVars, gmpVars, logVars, imVars, rsVars, ijVars, bbVars, fmVars >>

\* Two monsters that know one move, and no call.
EfParked ==
    /\ EfInit
    /\ efUser = [ type |-> "ENTITY_MONSTER", atk |-> 10, def |-> 40,
                  moves |-> [ i \in 1..4 |-> [ id |-> 1, pp |-> 0 ] ] ]
    /\ efTarget = [ efUser EXCEPT !.moves = << [ id |-> 1, pp |-> 0 ], [ id |-> 1, pp |-> 0 ],
                                              [ id |-> 2, pp |-> 5 ], [ id |-> 2, pp |-> 20 ] >> ]

\* An empty blob for the pristine image.
IjParked == IjInit /\ ijImage = PristineImage /\ ijBlob = << >>

\* Two empty tables.
RsParked == RsInit /\ rsAuto = << >> /\ rsUser = << >>

\* A run with the one operation at Foo+4.
ImParked == ImInit /\ imOps = << Operation(1, [ region |-> Foo.region, address |-> Foo.address + 4, len |-> 4 ]) >>

\* An empty function body.
LogParked == LogInit /\ lgBody = << [ kind |-> "statement", expr |-> TRUE ] >>

\* A patch left out of the image.
GmpParked == GmpInit /\ ~gpPatched

InitTramp == TrampInit /\ DispInit /\ build = PlainBuild /\ MenuInit /\ HookInit /\ GmpParked /\ LogParked /\ ImParked /\ RsParked /\ IjParked /\ EfParked /\ BbInit /\ FmInit

NextTramp ==
    \/ Enter /\ TrampOnly
    \/ HandlerCall /\ TrampOnly
    \/ TStep /\ TrampOnly
    \/ GameRunsOn /\ TrampOnly

SpecTramp == InitTramp /\ [][NextTramp]_vars

\* The trampolines of the reg_backup kind, with hooks firing inside handlers.
InitRegBackup == InitTramp

NextRegBackup ==
    \/ EnterBackup /\ TrampOnly
    \/ HandlerCall /\ TrampOnly
    \/ HookFiresInHandler /\ TrampOnly
    \/ HandlerReturnsAfterHook /\ TrampOnly
    \/ TStep /\ TrampOnly
    \/ GameRunsOn /\ TrampOnly

SpecRegBackup == InitRegBackup /\ [][NextRegBackup]_vars

InitDispatch == TrampInit /\ DispInit /\ MenuInit /\ HookInit /\ GmpParked /\ LogParked /\ ImParked /\ RsParked /\ IjParked /\ EfParked /\ BbInit /\ FmInit

NextDispatch ==
    \/ CallEffectDispatch /\ DispOnly
    \/ EffectCChain /\ DispOnly
    \/ EffectRustChain /\ DispOnly
    \/ EffectReturn /\ DispOnly
    \/ CallDispatchCustomInstruction /\ DispOnly
    \/ InstructionRejected /\ DispOnly
    \/ InstructionRun /\ DispOnly
    \/ CallCustomScriptSpecialProcessCall /\ DispOnly
    \/ SpLogRunning /\ DispOnly
    \/ SpCase100 /\ DispOnly
    \/ SpDefault /\ DispOnly
    \/ CallDispatchScriptSpecialProcessCall /\ DispOnly
    \/ SpCChain /\ DispOnly
    \/ SpUnhandled /\ DispOnly
    \/ SpReturn /\ DispOnly

SpecDispatch == InitDispatch /\ [][NextDispatch]_vars

InitMenu == TrampInit /\ DispInit /\ build.amount = 2 /\ ~build.rust /\ MenuInit /\ HookInit /\ GmpParked /\ LogParked /\ ImParked /\ RsParked /\ IjParked /\ EfParked /\ BbInit /\ FmInit

NextMenu ==
    \/ InitializeCustomScriptMenu /\ MenuOnly
    \/ DispatchCustomScriptMenu /\ MenuOnly

SpecMenu == InitMenu /\ [][NextMenu]_vars

\* The opcode hook of the script engine together with the C function it calls.
InitOpcode == TrampInit /\ DispInit /\ ~build.rust /\ MenuInit /\ HookInit /\ GmpParked /\ LogParked /\ ImParked /\ RsParked /\ IjParked /\ EfParked /\ BbInit /\ FmInit

NextOpcode ==
    \/ EnterOpcodeHook /\ HookOnly
    \/ HookStep /\ HookOnly
    \/ HookCall /\ UNCHANGED << trampVars, menuVars, gmpVars, logVars, imVars, rsVars, ijVars, efVars, bbVars, fmVars >>
    \/ InstructionRejected /\ DispOnly
    \/ InstructionRun /\ DispOnly
    \/ HookCallReturns /\ HookOnly
    \/ HookLeaves /\ HookOnly

SpecOpcode == InitOpcode /\ [][NextOpcode]_vars

\* The keyboard hook and the menu functions of one message_Menu request.  The
\* hook sits in the game's keyboard set-up, which the create function of a
\* keyboard menu calls with GLOBAL_MENU_INFO.id (SetupKeyboard) and the base
\* game calls with its own IDs: it runs before the first frame of a request.
\* It is straight-line code on the one CPU, so the C functions run only while
\* no hook is being executed.
KeyboardSetUp == menuRun.frames = 0

NoHookRunning == hk = ""

InitKeyboard == InitMenu

NextKeyboard ==
    \/ KeyboardSetUp /\ EnterKeyboardHook /\ HookOnly
    \/ HookStep /\ HookOnly
    \/ HookLeaves /\ HookOnly
    \/ NoHookRunning /\ InitializeCustomScriptMenu /\ MenuOnly
    \/ NoHookRunning /\ DispatchCustomScriptMenu /\ MenuOnly

SpecKeyboard == InitKeyboard /\ [][NextKeyboard]_vars

\* Everything that reads the two tables: the parameter-count and opcode
\* hooks with DispatchCustomInstruction for the opcodes of a script, and the
\* prompt hook, the string hook and the menu functions for its menus.  The
\* two paths share no state; a behaviour follows one of them.
MenusUntouched == menuPhase = "none" /\ menuReads = {} /\ menuStringId = 0

InstructionsUntouched == dcall = NoCall /\ hk \in { "", "prompt" }

\* The build of the repository: two custom instructions, three custom menus.
InitTables == InitOpcode /\ build = PlainBuild

NextTables ==
    \/ MenusUntouched /\ EnterParameterCountHook /\ HookOnly
    \/ MenusUntouched /\ EnterOpcodeHook /\ HookOnly
    \/ HookStep /\ HookOnly
    \/ HookCall /\ UNCHANGED << trampVars, menuVars, gmpVars, logVars, imVars, rsVars, ijVars, efVars, bbVars, fmVars >>
    \/ InstructionRejected /\ DispOnly
    \/ InstructionRun /\ DispOnly
    \/ HookCallReturns /\ HookOnly
    \/ HookLeaves /\ HookOnly
    \/ InstructionsUntouched /\ KeyboardSetUp /\ EnterPromptHook /\ HookOnly
    \/ InstructionsUntouched /\ NoHookRunning /\ InitializeCustomScriptMenu /\ MenuOnly
    \/ InstructionsUntouched /\ NoHookRunning /\ DispatchCustomScriptMenu /\ MenuOnly
    \/ InstructionsUntouched /\ NoHookRunning /\ CustomPreprocessStringFromId /\ MenuOnly

SpecTables == InitTables /\ [][NextTables]_vars

\* Calls of GetMovePower in an image with or without the example patch.
InitGetMovePower ==
    TrampInit /\ DispInit /\ build = PlainBuild /\ MenuInit /\ HookInit /\ GmpInit /\ LogParked /\ ImParked /\ RsParked /\ IjParked /\ EfParked /\ BbInit /\ FmInit

NextGetMovePower ==
    \/ CallGetMovePower /\ GmpOnly
    \/ GetMovePowerEntry /\ GmpOnly
    \/ CustomGetMovePower /\ GmpOnly
    \/ OriginalGetMovePower /\ GmpOnly

SpecGetMovePower == InitGetMovePower /\ [][NextGetMovePower]_vars

\* A function body that uses the logging macros, in a build with and in a
\* build without NDEBUG.
InitLogging ==
    /\ TrampInit /\ DispInit /\ build.amount = 2 /\ ~build.rust
    /\ MenuInit /\ HookInit /\ GmpParked /\ LogInit /\ ImParked /\ RsParked /\ IjParked /\ EfParked /\ BbInit /\ FmInit

NextLogging ==
    \/ ExecuteStatement /\ LogOnly
    \/ WaitForever /\ LogOnly

SpecLogging == InitLogging /\ [][NextLogging]_vars

\* Runs of the image patcher on the pristine image, the operations of one
\* patch text taken in every order.
InitPatcher ==
    /\ TrampInit /\ DispInit /\ build = PlainBuild
    /\ MenuInit /\ HookInit /\ GmpParked /\ LogParked /\ ImInit /\ RsParked /\ IjParked /\ EfParked /\ BbInit /\ FmInit

NextPatcher ==
    \/ RunApply /\ ImOnly
    \/ ReorderOperations /\ ImOnly

SpecPatcher == InitPatcher /\ [][NextPatcher]_vars

\* The symbol resolver run on every pair of small tables.
InitResolver ==
    /\ TrampInit /\ DispInit /\ build = PlainBuild
    /\ MenuInit /\ HookInit /\ GmpParked /\ LogParked /\ ImParked /\ RsInit /\ IjParked /\ EfParked /\ BbInit /\ FmInit

NextResolver ==
    \/ RunResolve /\ RsOnly

SpecResolver == InitResolver /\ [][NextResolver]_vars

\* The injector run on every small blob and input image.
InitInjector ==
    /\ TrampInit /\ DispInit /\ build = PlainBuild
    /\ MenuInit /\ HookInit /\ GmpParked /\ LogParked /\ ImParked /\ RsParked /\ IjInit /\ EfParked /\ BbInit /\ FmInit

NextInjector ==
    \/ RunInject /\ IjOnly

SpecInjector == InitInjector /\ [][NextInjector]_vars

\* Items and moves used on and by every small pair of entities.
InitEffects ==
    /\ TrampInit /\ DispInit /\ build = PlainBuild
    /\ MenuInit /\ HookInit /\ GmpParked /\ LogParked /\ ImParked /\ RsParked /\ IjParked
    /\ EfInit /\ BbInit /\ FmInit

NextEffects ==
    \/ CallCustomApplyItemEffect /\ EfOnly
    \/ CallCustomApplyMoveEffect /\ EfOnly

SpecEffects == InitEffects /\ [][NextEffects]_vars

\* CheckBeastBoost, called after any move of any user.
InitBeastBoost == InitTramp

NextBeastBoost ==
    \/ CallCheckBeastBoost /\ BbOnly
    \/ BeastBoostDone /\ BbOnly

SpecBeastBoost == InitBeastBoost /\ [][NextBeastBoost]_vars

\* customGetMovePower, called for any move.
InitMovePowerText == InitTramp

NextMovePowerText ==
    \/ customGetMovePower /\ FmOnly
    \/ MovePowerUsed /\ FmOnly

SpecMovePowerText == InitMovePowerText /\ [][NextMovePowerText]_vars

(***************************************************************************)
(* Properties of the trampolines, stated for SpecTramp.                     *)
(***************************************************************************)
EffectTrampolines == { "item_effect", "move_effect" }

\* C2: every invocation of the item-effect and move-effect trampolines goes
\* through ENTER, SAVE_STATE, DISPATCH in that order and then takes exactly
\* one exit: DIVERT (branch to Apply*EffectJumpAddr) if and only if the
\* handler returned true, RESTORE_AND_CONTINUE (branch to
\* Apply*EffectHookAddr+4) if and only if it returned false.
C2_PhaseOrderAndExit ==
    tramp \in EffectTrampolines =>
      /\ \/ IsPrefix(phases, << "ENTER", "SAVE_STATE", "DISPATCH", "DIVERT" >>)
         \/ IsPrefix(phases, << "ENTER", "SAVE_STATE", "DISPATCH", "RESTORE_AND_CONTINUE" >>)
      /\ Exited =>
           /\ Len(phases) = 4
           /\ stats.calls = 1
           /\ exitAt \in { DivertLabel(tramp), ContinueLabel(tramp) }
           /\ (exitAt = DivertLabel(tramp)) <=> stats.handled
           /\ (exitAt = ContinueLabel(tramp)) <=> ~stats.handled
           /\ (phases[4] = "DIVERT") <=> stats.handled

\* Witness of C2: a move-effect invocation whose handler returned true has
\* left through ApplyMoveEffectJumpAddr.
C2_Witness ==
    /\ tramp = "move_effect"
    /\ Exited
    /\ stats.handled
    /\ exitAt = "ApplyMoveEffectJumpAddr"

HookedTrampolines == { "special_process", "item_effect", "move_effect" }

\* The effect of the displaced instruction of the running trampoline is
\* visible at the exit: the pushed words are on the stack (special process),
\* the flags are those of cmp r0, #0 on the value r0 has (item effect), r1
\* holds 1 (move effect).
DisplacedEffectVisible ==
    CASE tramp = "special_process" ->
           /\ stack = Unpatched(tramp, entry).stack
           /\ regs["sp"] = Unpatched(tramp, entry).regs["sp"]
      [] tramp = "item_effect" -> flags = CmpFlags(regs["r0"], 0)
      [] tramp = "move_effect" -> regs["r1"] = 1
      [] OTHER -> TRUE

\* C3 as stated (refuted): on every path through the item-effect,
\* move-effect and special-process trampolines the displaced instruction is
\* performed exactly once.
C3_ReplayedOnceOnEveryPath ==
    (tramp \in HookedTrampolines /\ Exited) => stats.replays = 1

\* C3 (amended): the displaced instruction is never performed twice; on the
\* RESTORE_AND_CONTINUE exit it has been performed exactly once, after the
\* dispatch and after the registers were restored, so that its effect is in
\* place when the game resumes; on the DIVERT exit it has not been performed.
C3_ReplayedOnceOnContinueOnly ==
    tramp \in HookedTrampolines =>
      /\ stats.replays <= 1
      /\ Continued =>
           /\ stats.replays = 1
           /\ stats.replaysBeforeCall = 0
           /\ DisplacedEffectVisible
      /\ Diverted => stats.replays = 0

\* Witness of C3: an item-effect invocation whose handler was called and
\* returned false has resumed at ApplyItemEffectHookAddr+4 with the displaced
\* cmp performed once.
C3_Witness ==
    /\ tramp = "item_effect"
    /\ Continued
    /\ stats.calls = 1
    /\ stats.replays = 1

\* The registers the effect trampolines hand back unchanged on the
\* not-handled path: the pushed ones and sp.
PreservedByEffectTrampoline == R0toR9R11R12 \cup { "sp" }

\* C4 as stated (refuted): when the handler returns NOT_HANDLED, r0-r12, sp,
\* lr and the flags produced by the replayed instruction are, where the
\* original code resumes, what the unpatched code would have there.
C4_AllRegistersRoundTrip ==
    (tramp \in EffectTrampolines /\ Continued) =>
      LET u == Unpatched(tramp, entry)
      IN  /\ \A r \in Regs : regs[r] = u.regs[r]
          /\ SetsFlags(Displaced(tramp)) => flags = u.flags

\* C4 (amended): when the handler returns NOT_HANDLED, r0-r9, r11, r12, sp
\* and the stack contents are, where the original code resumes, what the
\* unpatched code would have there; so are r10 and the flags of the replayed
\* cmp in the item-effect trampoline.  lr is not preserved, and the
\* move-effect trampoline leaves the address of move_effect_input in r10.
C4_SavedRegistersRoundTrip ==
    (tramp \in EffectTrampolines /\ Continued) =>
      LET u == Unpatched(tramp, entry)
      IN  /\ \A r \in PreservedByEffectTrampoline : regs[r] = u.regs[r]
          /\ stack = u.stack
          /\ tramp = "item_effect" =>
               /\ regs["r10"] = u.regs["r10"]
               /\ flags = u.flags
          /\ tramp = "move_effect" => regs["r10"] = move_effect_input

\* Witness of C4: a move-effect invocation whose handler returned false has
\* resumed at ApplyMoveEffectHookAddr+4 after a call that clobbered r1-r3
\* and r12.
C4_Witness ==
    /\ tramp = "move_effect"
    /\ Continued
    /\ ~stats.handled
    /\ stats.calls = 1
    /\ entry.regs["r12"] # Junk(1)
    /\ entry.regs["r2"] > 0

SavingTrampolines == { "item_effect", "move_effect", "after_move_effect" }

C7_BelowHundredRunsOriginal ==
    (tramp = "special_process" /\ Exited) =>
      /\ stats.calls > 0 => entry.regs["r1"] >= 100
      /\ entry.regs["r1"] < 100 =>
           /\ exitAt = "ScriptSpecialProcessCall+4"
           /\ stats.calls = 0
           /\ stats.replays = 1
           /\ stack = Unpatched(tramp, entry).stack
           /\ \A r \in { "r0", "r1", "r2", "r3" } : regs[r] = entry.regs[r]

\* Witness of C7: special process 99 has reached ScriptSpecialProcessCall+4.
C7_Witness ==
    /\ tramp = "special_process"
    /\ Exited
    /\ entry.regs["r1"] = 99
    /\ exitAt = "ScriptSpecialProcessCall+4"
    /\ stats.replays = 1

(***************************************************************************)
(* Properties of the C dispatchers, stated for SpecDispatch.               *)
(***************************************************************************)
Returned(fns) == dpc = "idle" /\ dcall.fn \in fns

SomeChainHandled == \E i \in 1..Len(chainLog) : chainLog[i].handled

\* C1: when an effect dispatcher returns, the chains it consulted are the C
\* handler first and then, only in a COT_RUST build and only if the C handler
\* did not handle the effect, the Rust handler; no chain was consulted after
\* one that reported HANDLED; and the dispatcher returned HANDLED exactly if
\* some chain reported HANDLED.
C1_FirstHandledWins ==
    Returned(EffectDispatchers) =>
        /\ Len(chainLog) \in 1..2
        /\ chainLog[1].chain = CChainOf(dcall.fn)
        /\ Len(chainLog) = 2 <=> (build.rust /\ ~chainLog[1].handled)
        /\ Len(chainLog) = 2 => chainLog[2].chain = RustChainOf(dcall.fn)
        /\ \A i \in 1..Len(chainLog) : chainLog[i].handled => i = Len(chainLog)
        /\ dret = 1 <=> SomeChainHandled
        /\ dret \in { 0, 1 }

\* A COT_RUST build in which the C handler passed and the Rust handler took
\* the effect, and one in which the C handler took it first.
C1_Witness ==
    /\ Returned(EffectDispatchers)
    /\ build.rust
    /\ Len(chainLog) = 2
    /\ ~chainLog[1].handled
    /\ chainLog[2].handled
    /\ dret = 1

IndexOutsideTable == dcall.id < 0 \/ dcall.id >= CUSTOM_INSTRUCTION_AMOUNT

ErrorLogged ==
    \E i \in 1..Len(dlog) : dlog[i].level = 2 /\ dlog[i].arg = dcall.id

\* C6 as stated: DispatchCustomInstruction with an index outside the table
\* reports an error through the log, calls no handler and reads no table
\* entry; with an index inside it calls the handler at that index once with
\* the routine and args given.
C6_OutOfRangeAlwaysReported ==
    Returned({ "DispatchCustomInstruction" }) =>
        IF IndexOutsideTable
        THEN ErrorLogged /\ handlerCalls = << >> /\ tableReads = {}
        ELSE /\ handlerCalls = << << dcall.id, dcall.routine, dcall.args >> >>
             /\ tableReads = { dcall.id }

\* C6 amended: with an index outside the table DispatchCustomInstruction
\* calls no handler, reads no table entry and returns; it reports the error
\* through the log in a build without NDEBUG and reports nothing in a build
\* with NDEBUG.  With an index inside the table it reads that entry only and
\* calls its handler once with the routine and args given.
C6_OutOfRangeReportedUnlessNdebug ==
    Returned({ "DispatchCustomInstruction" }) =>
        IF IndexOutsideTable
        THEN /\ handlerCalls = << >>
             /\ tableReads = {}
             /\ ~build.ndebug => (ErrorLogged /\ Len(dlog) = 1)
             /\ build.ndebug => dlog = << >>
        ELSE /\ handlerCalls = << << dcall.id, dcall.routine, dcall.args >> >>
             /\ tableReads = { dcall.id }

\* Index 5 against a 3-entry table in a logging build: the error is logged
\* and nothing was called.
C6_Witness ==
    /\ Returned({ "DispatchCustomInstruction" })
    /\ CUSTOM_INSTRUCTION_AMOUNT = 3
    /\ dcall.id = 5
    /\ ~build.ndebug
    /\ ErrorLogged
    /\ handlerCalls = << >>

SpecialProcessHandlers == { "CustomScriptSpecialProcessCall",
                            "cotInternalDispatchScriptSpecialProcessCall" }

\* The call has returned and its ID (>= 100) was a case of no handler chain.
ReturnedUnrecognised ==
    /\ Returned(SpecialProcessHandlers)
    /\ dcall.id >= 100
    /\ dcall.id # 100
    /\ ~SomeChainHandled

WarningLogged ==
    \E i \in 1..Len(dlog) : dlog[i].level = 1 /\ dlog[i].arg = dcall.id

NothingElseChanged ==
    /\ dret = 0
    /\ border = borderAtCall
    /\ tableReads = {}
    /\ handlerCalls = << >>

InRangeRun ==
    /\ menuPhase # "none"
    /\ menuRun.menu_id >= FIRST_CUSTOM_SCRIPT_MENU
    /\ menuRun.menu_id < FIRST_CUSTOM_SCRIPT_MENU + CUSTOM_MENU_AMOUNT

\* DispatchCustomScriptMenu has been called in the run.
Dispatched == menuPhase # "none" /\ menuRun.frames > 0

Calls(trace, what) == Len(SelectSeq(trace, LAMBDA e : e = what))

\* C9: in every run of a menu with an in-range ID, create is the first call
\* and is made once; each DispatchCustomScriptMenu call makes one update
\* call; close is made once, as the last call of the run, in the dispatch
\* call whose update returned true and in no other.
C9_CreateUpdateCloseInOrder ==
    InRangeRun =>
        /\ Len(menuTrace) >= 1
        /\ menuTrace[1] = "create"
        /\ Calls(menuTrace, "create") = 1
        /\ Calls(menuTrace, "close") = (IF menuPhase = "done" THEN 1 ELSE 0)
        /\ menuPhase = "done" =>
              /\ menuTrace[Len(menuTrace)] = "close"
              /\ Len(menuTrace) >= 3
        /\ \A i \in 2..Len(menuTrace) :
              menuTrace[i] = "update" \/ (i = Len(menuTrace) /\ menuTrace[i] = "close")
        /\ Calls(menuTrace, "update") = menuRun.frames
        /\ Dispatched =>
              /\ callTrace = IF menuFinished THEN << "update", "close" >>
                             ELSE << "update" >>
              /\ menuFinished <=> menuPhase = "done"

\* A run that took two frames: create, update (false), update (true), close.
C9_Witness ==
    /\ InRangeRun
    /\ menuPhase = "done"
    /\ menuTrace = << "create", "update", "update", "close" >>
    /\ callTrace = << "update", "close" >>

\* C10 as stated: whenever DispatchCustomScriptMenu reports finished, the
\* value stored through return_val is GLOBAL_MENU_INFO.return_val as close
\* left it and GLOBAL_MENU_INFO.id is 0; whenever it reports not finished,
\* *return_val and GLOBAL_MENU_INFO.id are as before the call.
C10_FinishedStoresMenuResult ==
    Dispatched =>
        IF menuFinished
        THEN /\ script_return_val = GLOBAL_MENU_INFO.return_val
             /\ GLOBAL_MENU_INFO.id = 0
        ELSE /\ script_return_val = menuAtCall.return_val
             /\ GLOBAL_MENU_INFO.id = menuAtCall.info.id

\* C10 amended: for an in-range menu ID, a finished report comes with
\* *return_val equal to GLOBAL_MENU_INFO.return_val as close left it and with
\* GLOBAL_MENU_INFO.id reset to 0, and a not-finished report leaves
\* *return_val and GLOBAL_MENU_INFO.id as they were.  For an out-of-range
\* menu ID the call reports finished at once with *return_val = -1, runs
\* neither update nor close and leaves GLOBAL_MENU_INFO as it was.
C10_InRangeFinishedStoresMenuResult ==
    Dispatched =>
        IF InRangeRun
        THEN IF menuFinished
             THEN /\ callTrace = << "update", "close" >>
                  /\ script_return_val = GLOBAL_MENU_INFO.return_val
                  /\ GLOBAL_MENU_INFO.id = 0
             ELSE /\ script_return_val = menuAtCall.return_val
                  /\ GLOBAL_MENU_INFO.id = menuAtCall.info.id
                  /\ GLOBAL_MENU_INFO.id = menuRun.menu_id
        ELSE /\ menuFinished
             /\ script_return_val = -1
             /\ callTrace = << >>
             /\ GLOBAL_MENU_INFO = menuAtCall.info

\* The password menu (81) finished with a wrong password: close stored a
\* nonzero comparison result, which is what the script receives.
C10_Witness ==
    /\ Dispatched
    /\ menuRun.menu_id = 81
    /\ menuFinished
    /\ menuAtCall.info.return_val = 0
    /\ GLOBAL_MENU_INFO.return_val = 1
    /\ script_return_val = 1
    /\ GLOBAL_MENU_INFO.id = 0

(***************************************************************************)
(* Properties of the script engine hooks.                                  *)
(***************************************************************************)
HookExited(h) == hk = h /\ hkpc = 0 /\ hkExit # ""

OpcodeAtEntry == hkEntry.regs["r5"]

\* The one call an invocation for a custom opcode makes.
DispatchedWithIndex ==
    hkCalls = << << "DispatchCustomInstruction",
                    OpcodeAtEntry - FIRST_CUSTOM_OPCODE,
                    hkEntry.regs["r4"], hkEntry.regs["r6"] >> >>

BelowFirstReplays ==
    /\ hkExit = "OpcodeCheck+4"
    /\ hkCalls = << >>
    /\ hkReplays = 1
    /\ hkFlags = CmpFlags(OpcodeAtEntry, hkEntry.regs["r0"])
    /\ \A r \in Regs : hkRegs[r] = hkEntry.regs[r]

\* C11 as stated: for every opcode >= FIRST_CUSTOM_OPCODE the opcode hook
\* runs the handler of CUSTOM_INSTRUCTIONS[opcode - 0x1000] and leaves for
\* the script engine; for every opcode below it replays the displaced cmp
\* and continues at OpcodeCheck+4 without calling DispatchCustomInstruction.
C11_EveryCustomOpcodeRunsItsEntry ==
    HookExited("opcode") =>
        IF OpcodeAtEntry >= FIRST_CUSTOM_OPCODE
        THEN /\ hkExit = "ScriptEngineReturnTwo"
             /\ DispatchedWithIndex
             /\ handlerCalls = << << OpcodeAtEntry - FIRST_CUSTOM_OPCODE,
                                    hkEntry.regs["r4"], hkEntry.regs["r6"] >> >>
        ELSE BelowFirstReplays

\* C11 amended: for every opcode >= FIRST_CUSTOM_OPCODE the opcode hook
\* calls DispatchCustomInstruction once with index opcode - 0x1000, the
\* routine and the argument list, and then leaves for the script engine
\* (ScriptEngineReturnTwo); the handler of CUSTOM_INSTRUCTIONS[opcode -
\* 0x1000] runs, once, when that index is below CUSTOM_INSTRUCTION_AMOUNT
\* and no handler runs otherwise.  For every opcode below
\* FIRST_CUSTOM_OPCODE the hook replays the displaced cmp r5,r0 once and
\* continues at OpcodeCheck+4 with every register as at entry and without
\* calling DispatchCustomInstruction.
C11_CustomOpcodeDispatchedByIndex ==
    HookExited("opcode") =>
        IF OpcodeAtEntry >= FIRST_CUSTOM_OPCODE
        THEN /\ hkExit = "ScriptEngineReturnTwo"
             /\ DispatchedWithIndex
             /\ hkReplays = 0
             /\ handlerCalls =
                  IF OpcodeAtEntry - FIRST_CUSTOM_OPCODE < CUSTOM_INSTRUCTION_AMOUNT
                  THEN << << OpcodeAtEntry - FIRST_CUSTOM_OPCODE,
                             hkEntry.regs["r4"], hkEntry.regs["r6"] >> >>
                  ELSE << >>
        ELSE BelowFirstReplays

\* Opcode 0x1001 with a table of two or more entries: entry 1 ran and the
\* hook left for ScriptEngineReturnTwo.
C11_Witness ==
    /\ HookExited("opcode")
    /\ OpcodeAtEntry = FIRST_CUSTOM_OPCODE + 1
    /\ hkExit = "ScriptEngineReturnTwo"
    /\ Len(handlerCalls) = 1
    /\ handlerCalls[1][1] = 1

\* The menu ID the keyboard hook was entered with, as the int it is.
KeyboardIdAtEntry == ToSigned(hkEntry.regs["r0"])

\* The entry of the table that ID 80 + <array index> names.
EntryOfId(menu_id) == CUSTOM_MENUS[(menu_id - 80) + 1]

\* C12: custom script menus use ID 80 + array index.  HookKeyboardCheck
\* returns with r6 = the ID for every menu ID below 80 and with r6 = 3 for
\* every ID >= 80, and with the ID in r8 in both cases; every function that
\* InitializeCustomScriptMenu and DispatchCustomScriptMenu call for menu_id
\* is a field of CUSTOM_MENUS[menu_id - 80], and for an ID of the table they
\* do call one.
C12_MenuIdIsEightyPlusIndex ==
    /\ HookExited("keyboard") =>
         /\ hkExit = "lr"
         /\ hkRegs["r8"] = hkEntry.regs["r0"]
         /\ hkRegs["r6"] = IF KeyboardIdAtEntry < 80 THEN hkEntry.regs["r0"] ELSE 3
    /\ menuCalled # << >> =>
         menuCalled \in { << EntryOfId(menuRun.menu_id).create >>,
                          << EntryOfId(menuRun.menu_id).update >>,
                          << EntryOfId(menuRun.menu_id).update,
                             EntryOfId(menuRun.menu_id).close >> }
    /\ (menuPhase # "none" /\ menuRun.menu_id \in 80 .. (80 + CUSTOM_MENU_AMOUNT - 1))
         => menuCalled # << >>

\* The password menu (ID 81) has been created through entry 1 of the table
\* and the keyboard hook, asked about ID 81, has selected menu 3.
C12_Witness ==
    /\ HookExited("keyboard")
    /\ KeyboardIdAtEntry = 81
    /\ hkRegs["r6"] = 3 /\ hkRegs["r8"] = 81
    /\ menuRun.menu_id = 81
    /\ menuCalled = << "CreateSimpleKeyboardMenu" >>

(***************************************************************************)
(* Properties of the GetMovePower patch, stated for SpecGetMovePower.      *)
(***************************************************************************)
\* C13: with b CustomGetMovePower installed at the start of GetMovePower,
\* every call of GetMovePower runs CustomGetMovePower and never the original
\* body, CustomGetMovePower finds in lr the return address the call put
\* there, and when it has returned the game continues right after the call
\* with r0 holding the value CustomGetMovePower rolled, a value of
\* RandRange(1, 100), which is also the value it logged.
C13_PatchedCallRunsCustomOnly ==
    gpPatched =>
      /\ gpPc \notin { "GetMovePower+4", "lost" }
      /\ \A i \in 1..Len(gpRan) : gpRan[i] = << "CustomGetMovePower", gpCall.ret >>
      /\ gpPc = "CustomGetMovePower" => gpRegs.lr = gpCall.ret
      /\ (gpPc = "game" /\ gpCall # NoGmpCall) =>
           /\ Len(gpRan) = 1
           /\ gpRegs.lr = gpCall.ret
           /\ gpRegs.r0 \in RandRange(1, 100)
           /\ gpLog = << << gpCall.entity, "Rolled move power %d!", gpRegs.r0 >> >>

\* A patched call from site 201 has returned with a rolled power of 57.
C13_Witness ==
    /\ gpPatched
    /\ gpPc = "game"
    /\ gpCall.ret = CodeAddr(201) + 4
    /\ gpRan = << << "CustomGetMovePower", CodeAddr(201) + 4 >> >>
    /\ gpRegs.r0 = 57

(***************************************************************************)
(* Properties of the logging macros, stated for SpecLogging.               *)
(***************************************************************************)
FailedAssert(i) == lgBody[i].kind = "COT_ASSERT" /\ ~lgBody[i].expr

IsMacro(i) == lgBody[i].kind # "statement"

\* C14: in a debug build a COT_ASSERT(expr) with a false expression gives
\* DebugPrint an 'ASSERTION FAILED' entry and then waits forever: control
\* never gets past it, so no statement after it is executed and nothing
\* more is logged.  In an NDEBUG build COT_LOG, COT_WARN, COT_ERROR, their
\* FMT forms and COT_ASSERT emit nothing, nothing waits, and every
\* statement up to the point reached has been executed.
C14_AssertStopsDebugBuildOnly ==
    /\ ~build.ndebug =>
         \A i \in 1..Len(lgBody) :
           FailedAssert(i) =>
             /\ lgPc <= i
             /\ \A j \in 1..Len(lgDone) : lgDone[j] < i
             /\ (lgPc = i /\ lgWaiting) =>
                  /\ lgOut # << >>
                  /\ lgOut[Len(lgOut)] = [ level |-> 2, what |-> "ASSERTION FAILED" ]
             /\ (lgPc = i /\ ~lgWaiting) =>
                  \A k \in 1..Len(lgOut) : lgOut[k].what # "ASSERTION FAILED"
    /\ (~build.ndebug /\ lgWaiting) => FailedAssert(lgPc)
    /\ build.ndebug =>
         /\ lgOut = << >>
         /\ ~lgWaiting
         /\ lgDone = SelectSeq([ i \in 1..(lgPc - 1) |-> i ], LAMBDA i : ~IsMacro(i))

\* A debug build waits in the failed assertion that stands between two
\* plain statements, the first executed and the second not.
C14_Witness ==
    /\ ~build.ndebug
    /\ Len(lgBody) = 3
    /\ lgBody[1].kind = "statement" /\ FailedAssert(2) /\ lgBody[3].kind = "statement"
    /\ lgWaiting
    /\ lgDone = << 1 >>
    /\ lgOut = << [ level |-> 2, what |-> "ASSERTION FAILED" ] >>

(***************************************************************************)
(* Properties of the image patcher, stated for SpecPatcher.                *)
(***************************************************************************)
PatcherRan == imPhase = "ran"

OpIndices == 1..Len(imOps)

\* Operation i has a region and some byte of its span, placed at fileBase +
\* (address - loadBase), is outside that region's bytes in the file.
OutsideExtent(i) ==
    /\ imOps[i].region \in DOMAIN RegionTable
    /\ LET r == RegionTable[imOps[i].region]
           off == r.fileBase + (imOps[i].address - r.loadBase)
       IN  off < r.fileBase \/ off + Len(imOps[i].bytes) > r.fileBase + r.length

InBounds(i) == imOps[i].region \in DOMAIN RegionTable /\ ~OutsideExtent(i)

SpansMeet(i, j) ==
    /\ i # j
    /\ KnownRegion(imOps[i]) /\ KnownRegion(imOps[j])
    /\ Span(imOps[i]).lo < Span(imOps[j]).hi
    /\ Span(imOps[j]).lo < Span(imOps[i]).hi

AllInBounds == \A i \in OpIndices : InBounds(i)

PairwiseDisjoint == \A i, j \in OpIndices : ~SpansMeet(i, j)

NothingWritten == imResult.image = PristineImage

\* C15: for operations whose spans are pairwise disjoint and in bounds,
\* apply succeeds and is order-independent: the image a run returns for
\* the operations in any order is, byte for byte, the image the run on the
\* list as parsed returned.
C15_DisjointOperationsOrderIndependent ==
    (PatcherRan /\ AllInBounds /\ PairwiseDisjoint) =>
        /\ imResult.status = "ok"
        /\ imFirst.status = "ok"
        /\ imResult.image = imFirst.image

\* Three disjoint operations, two of them adjacent, applied with the
\* operation of line 3 first.
C15_Witness ==
    /\ PatcherRan /\ AllInBounds /\ PairwiseDisjoint
    /\ Len(imOps) = 3
    /\ imOps[1].bytes[1] = 16 * 3 + 1
    /\ \E i, j \in OpIndices : Span(imOps[i]).hi = Span(imOps[j]).lo
    /\ imResult.status = "ok"

\* C16 as stated: whenever two operations of a run have intersecting spans,
\* apply fails with Overlap, in whatever order and position they are.
C16_IntersectingAlwaysOverlap ==
    (PatcherRan /\ \E i, j \in OpIndices : SpansMeet(i, j)) =>
        imResult.status = "Overlap"

\* C16 amended: whenever two operations of a run have intersecting spans,
\* apply fails and writes nothing, in whatever order and position they are;
\* the error is Overlap when every operation of the run is in a known
\* region and within its region's file extent.
C16_IntersectingFailOverlapWhenAllInBounds ==
    (PatcherRan /\ \E i, j \in OpIndices : SpansMeet(i, j)) =>
        /\ imResult.status \in { "Overlap", "OutOfBounds", "UnknownRegion" }
        /\ NothingWritten
        /\ AllInBounds => imResult.status = "Overlap"

\* Operations at Foo and Foo+2 behind a valid first operation, the one at
\* Foo+2 ahead of the one at Foo: Overlap.
C16_Witness ==
    /\ PatcherRan
    /\ Len(imOps) = 3
    /\ imOps[2].address = Foo.address + 2 /\ imOps[2].region = Foo.region
    /\ imOps[3].address = Foo.address /\ imOps[3].region = Foo.region
    /\ InBounds(1) /\ ~SpansMeet(1, 2) /\ ~SpansMeet(1, 3)
    /\ imResult.status = "Overlap"
    /\ NothingWritten

\* C17 as stated: whenever an operation's span does not lie within its
\* region's file extent, apply fails with OutOfBounds and writes nothing.
C17_OutsideExtentAlwaysOutOfBounds ==
    (PatcherRan /\ \E i \in OpIndices : OutsideExtent(i)) =>
        /\ imResult.status = "OutOfBounds"
        /\ NothingWritten

\* C17 amended: whenever an operation's span, placed at fileOffset =
\* region.fileBase + (address - region.loadBase), does not lie within its
\* region's file extent, apply fails and writes nothing; the error is
\* OutOfBounds when the operations before it in the list are all in bounds
\* and pairwise disjoint.
C17_OutsideExtentFailsOutOfBoundsWhenFirst ==
    \A i \in OpIndices :
      (PatcherRan /\ OutsideExtent(i)) =>
          /\ imResult.status \in { "Overlap", "OutOfBounds", "UnknownRegion" }
          /\ NothingWritten
          /\ (\A j, k \in 1..(i - 1) : InBounds(j) /\ ~SpansMeet(j, k))
               => imResult.status = "OutOfBounds"

\* A valid operation at Foo followed by one that runs past the end of alpha.
C17_Witness ==
    /\ PatcherRan
    /\ Len(imOps) = 2
    /\ imOps[1].address = Foo.address /\ imOps[1].region = Foo.region
    /\ imOps[2].address = Foo.address + 4094 /\ imOps[2].region = Foo.region
    /\ imResult.status = "OutOfBounds"
    /\ NothingWritten

\* C18: apply is all-or-nothing.  A run fails exactly when some operation is
\* in an unknown region or out of bounds or two operations intersect; the
\* error is then one of OutOfBounds, Overlap, UnknownRegion and the image is
\* byte-identical to the image before the run, valid earlier operations
\* included.
C18_AllOrNothing ==
    PatcherRan =>
        /\ imResult.status = "ok" <=> (AllInBounds /\ PairwiseDisjoint)
        /\ imResult.status # "ok" =>
             /\ imResult.status \in { "Overlap", "OutOfBounds", "UnknownRegion" }
             /\ NothingWritten

\* A valid operation at Foo+4 followed by one in a region the image lacks.
C18_Witness ==
    /\ PatcherRan
    /\ Len(imOps) = 2
    /\ InBounds(1)
    /\ ~KnownRegion(imOps[2])
    /\ imResult.status = "UnknownRegion"
    /\ NothingWritten

\* C19: after a successful run the bytes that differ from the input image
\* all lie inside operation spans (apply itself writes nothing else, the
\* injector slot included) and every span holds its operation's bytes; the
\* run with the one 4-byte operation at Foo+4 succeeds and writes exactly
\* the 4 bytes at file offset region.fileBase + 4.
C19_OnlySpansWritten ==
    /\ (PatcherRan /\ imResult.status = "ok") =>
         /\ DOMAIN imResult.image =
              UNION { Span(imOps[i]).lo .. (Span(imOps[i]).hi - 1) : i \in OpIndices }
         /\ \A i \in OpIndices : \A k \in 1..Len(imOps[i].bytes) :
              imResult.image[Span(imOps[i]).lo + k - 1] = imOps[i].bytes[k]
    /\ (PatcherRan /\ Len(imOps) = 1 /\ imOps[1].region = "alpha"
          /\ imOps[1].address = Foo.address + 4) =>
         /\ imResult.status = "ok"
         /\ DOMAIN imResult.image =
              (RegionTable.alpha.fileBase + 4) .. (RegionTable.alpha.fileBase + 7)

\* The run with the single operation at Foo+4.
C19_Witness ==
    /\ PatcherRan
    /\ Len(imOps) = 1
    /\ imOps[1].region = "alpha" /\ imOps[1].address = Foo.address + 4
    /\ imResult.status = "ok"
    /\ imResult.image = [ o \in 516..519 |-> 16 + (o - 515) ]

(***************************************************************************)
(* Properties of the symbol resolver, stated for SpecResolver.             *)
(***************************************************************************)
Resolved == rsResult # NotResolved

NoNameTwice(table) ==
    \A i, j \in 1..Len(table) : table[i].name = table[j].name => i = j

MarkersKnown(table) ==
    \A i \in 1..Len(table) : table[i].region \in { "alpha", "beta" }

\* The result holds every name of both tables, and the user's entry for
\* every name the user table defines.
MergedUserFirst ==
    /\ rsResult.status = "ok"
    /\ \A i \in 1..Len(rsAuto) : rsAuto[i].name \in DOMAIN rsResult.table
    /\ \A i \in 1..Len(rsUser) :
         /\ rsUser[i].name \in DOMAIN rsResult.table
         /\ rsResult.table[rsUser[i].name].address = rsUser[i].address
    /\ \A i \in 1..Len(rsAuto) :
         (\A j \in 1..Len(rsUser) : rsUser[j].name # rsAuto[i].name)
           => rsResult.table[rsAuto[i].name].address = rsAuto[i].address

\* C20 as stated: when neither table contains the same name twice, the
\* result of resolve contains every name of both tables and a name defined
\* in both resolves to the user table's address.
C20_NoDuplicateMergesUserFirst ==
    (Resolved /\ NoNameTwice(rsAuto) /\ NoNameTwice(rsUser)) => MergedUserFirst

\* C20 amended: when neither table contains the same name twice and every
\* region marker names a region of the image, the result of resolve
\* contains every name of both tables, a name defined in both resolves to
\* the user table's address and a name defined only in the auto table to
\* its auto address; with a marker for a region the image lacks resolve
\* returns UnknownRegion and no table.
C20_NoDuplicateKnownRegionsMergesUserFirst ==
    (Resolved /\ NoNameTwice(rsAuto) /\ NoNameTwice(rsUser)) =>
        IF MarkersKnown(rsAuto) /\ MarkersKnown(rsUser)
        THEN MergedUserFirst
        ELSE rsResult = [ status |-> "UnknownRegion", table |-> << >> ]

\* Foo and Bar in the auto table, Foo again in the user table: Foo resolves
\* to the user's address, Bar to the auto one.
C20_Witness ==
    /\ Resolved
    /\ Len(rsAuto) = 2 /\ rsAuto[1].name = "Foo" /\ rsAuto[2].name = "Bar"
    /\ Len(rsUser) = 1 /\ rsUser[1].name = "Foo"
    /\ rsResult.status = "ok"
    /\ rsResult.table["Foo"].address = 4100
    /\ rsResult.table["Bar"].address = 4104

\* C21: whenever the same name is defined twice within the auto table or
\* twice within the user table, resolve fails with DuplicateSymbol and
\* produces no symbol table.
C21_NameTwiceIsDuplicateSymbol ==
    (Resolved /\ (~NoNameTwice(rsAuto) \/ ~NoNameTwice(rsUser))) =>
        /\ rsResult.status = "DuplicateSymbol"
        /\ rsResult.table = << >>

\* Foo twice in the auto table, at two addresses, and a user table without
\* a repeated name.
C21_Witness ==
    /\ Resolved
    /\ Len(rsAuto) = 2 /\ rsAuto[1].name = "Foo" /\ rsAuto[2].name = "Foo"
    /\ rsAuto[1].address # rsAuto[2].address
    /\ NoNameTwice(rsUser) /\ Len(rsUser) = 1
    /\ rsResult.status = "DuplicateSymbol"

(***************************************************************************)
(* Properties of the overlay injector, stated for SpecInjector.            *)
(***************************************************************************)
Injected == ijResult # NotInjected

SlotOffsetsOfBlob == Slot.fileBase .. (Slot.fileBase + Len(ijBlob) - 1)

HookReadsOf(table, size) ==
    { hkAccess[k].offset \div size :
        k \in { n \in 1..Len(hkAccess) : /\ hkAccess[n].kind = "read"
                                         /\ hkAccess[n].base = HookData[table] } }

\* C23: every read of CUSTOM_INSTRUCTIONS by HookGetParameterCount and
\* DispatchCustomInstruction, and of CUSTOM_MENUS by
\* HookKeyboardCustomPrompt, InitializeCustomScriptMenu,
\* DispatchCustomScriptMenu and CustomPreprocessStringFromId, is at an index
\* i with 0 <= i < the length of the table, whatever opcode or menu ID the
\* script engine passes in.
C23_TableReadsInRange ==
    /\ \A i \in HookReadsOf("CUSTOM_INSTRUCTIONS", InstructionSize) \cup tableReads :
         0 <= i /\ i < CUSTOM_INSTRUCTION_AMOUNT
    /\ \A i \in HookReadsOf("CUSTOM_MENUS", MenuSize) \cup menuReads :
         0 <= i /\ i < CUSTOM_MENU_AMOUNT

\* The reads that are in range: those of the C functions and of the prompt
\* hook.
C23_CheckedReadsInRange ==
    /\ \A i \in tableReads : 0 <= i /\ i < CUSTOM_INSTRUCTION_AMOUNT
    /\ \A i \in HookReadsOf("CUSTOM_MENUS", MenuSize) \cup menuReads :
         0 <= i /\ i < CUSTOM_MENU_AMOUNT

\* HookGetParameterCount has read behind the last entry of the table.
C23_ReadBehindTheTable ==
    /\ hk = "parameters"
    /\ \E i \in HookReadsOf("CUSTOM_INSTRUCTIONS", InstructionSize) :
         i >= CUSTOM_INSTRUCTION_AMOUNT

(***************************************************************************)
(* Menu IDs outside the table                                              *)
(***************************************************************************)

\* The run was requested with an ID whose index is negative or not below
\* CUSTOM_MENU_AMOUNT.
OutOfRangeRun == menuPhase # "none" /\ ~InRangeRun

MenuErrorLogged ==
    \E i \in 1..Len(mlog) : mlog[i].level = 2 /\ mlog[i].arg = menuRun.menu_id

\* What both functions do with such an ID apart from logging: Initialize
\* calls no create and leaves GLOBAL_MENU_INFO as it was; the first Dispatch
\* calls neither update nor close, stores -1 and reports finished, which ends
\* the script's wait.
RejectedWithoutCalls ==
    /\ menuCalled = << >>
    /\ menuTrace = << >>
    /\ GLOBAL_MENU_INFO = menuAtCall.info
    /\ IF Dispatched
       THEN /\ menuRun.frames = 1
            /\ callTrace = << >>
            /\ script_return_val = -1
            /\ menuFinished
            /\ menuPhase = "done"
       ELSE menuPhase = "active"

\* C24 as stated: for a menu ID outside the table InitializeCustomScriptMenu
\* logs an error, calls no create function and leaves GLOBAL_MENU_INFO
\* unchanged, and DispatchCustomScriptMenu calls neither update nor close,
\* stores -1 through return_val and returns true, so that the wait ends on
\* the first dispatch.
C24_OutOfRangeLoggedAndEnded ==
    OutOfRangeRun =>
        /\ RejectedWithoutCalls
        /\ ~Dispatched => MenuErrorLogged

\* C24 amended: as stated, except that InitializeCustomScriptMenu logs the
\* error in a build without NDEBUG and logs nothing in a build with NDEBUG.
C24_OutOfRangeLoggedUnlessNdebugAndEnded ==
    OutOfRangeRun =>
        /\ RejectedWithoutCalls
        /\ ~Dispatched =>
              /\ ~build.ndebug => (MenuErrorLogged /\ Len(mlog) = 1)
              /\ build.ndebug => mlog = << >>

\* ID 83 requested while the engine held 9 and GLOBAL_MENU_INFO still held
\* the state a finished run of menu 80 left: the first dispatch has ended the
\* wait with -1.
C24_Witness ==
    /\ OutOfRangeRun
    /\ menuRun.menu_id = 83
    /\ Dispatched
    /\ menuPhase = "done"
    /\ script_return_val = -1
    /\ menuAtCall.return_val = 9
    /\ GLOBAL_MENU_INFO.state # 0

(***************************************************************************)
(* The struct a create function finds                                      *)
(***************************************************************************)

\* C25: whenever the create function of a menu is entered, GLOBAL_MENU_INFO
\* holds the requested ID, state, return_val and previous_option 0, every
\* menu_results entry 0 and every window_ids entry -1, whatever a previous
\* run left in the struct.
C25_CreateFindsFreshStruct ==
    (InRangeRun /\ Calls(menuTrace, "create") = 1) =>
        /\ menuAtCreate.id = menuRun.menu_id
        /\ menuAtCreate.state = 0
        /\ menuAtCreate.return_val = 0
        /\ menuAtCreate.previous_option = 0
        /\ \A s \in Slots : menuAtCreate.menu_results[s] = 0
        /\ \A s \in Slots : menuAtCreate.window_ids[s] = -1

\* Menu 81 requested after a run of menu 80 that ended with state -1, a
\* return value of -2, a stored menu result and stale window IDs.
C25_Witness ==
    /\ InRangeRun
    /\ menuRun.menu_id = 81
    /\ menuRun.frames = 0
    /\ menuCalled = << "CreateSimpleKeyboardMenu" >>
    /\ menuAtCall.info.state = -1
    /\ menuAtCall.info.return_val = -2
    /\ menuAtCall.info.menu_results[0] # 0
    /\ menuAtCall.info.previous_option # 0
    /\ menuAtCall.info.window_ids[2] > 0
    /\ menuAtCreate.state = 0

(***************************************************************************)
(* Menu 80: recruit any monster                                            *)
(***************************************************************************)

\* A run of menu 80 whose create function has run.
RecruitRun == InRangeRun /\ menuRun.menu_id = FIRST_CUSTOM_SCRIPT_MENU

RecruitStates == { 0, 1, 2, 3, -1 }

\* C26: in a run of menu 80 GLOBAL_MENU_INFO.state stays in {0, 1, 2, 3, -1};
\* UpdateRecruitAnyMonsterMenu returns true exactly when it is entered with a
\* state outside {0, 1, 2, 3}; and when the menu has finished return_val is
\* the Chimecho Assembly index (>= 0) of the recruit if one was added, -1 if
\* the player left the list without selecting, -2 if no member slot was free.
C26_RecruitStatesAndResult ==
    RecruitRun =>
        /\ GLOBAL_MENU_INFO.state \in RecruitStates
        /\ Dispatched =>
              (menuFinished <=> menuAtCall.info.state \notin { 0, 1, 2, 3 })
        /\ menuPhase = "done" =>
              /\ script_return_val = GLOBAL_MENU_INFO.return_val
              /\ IF menuGame.recruit # << >>
                 THEN /\ GLOBAL_MENU_INFO.return_val = menuGame.recruit[1]
                      /\ GLOBAL_MENU_INFO.return_val >= 0
                      /\ menuGame.recruit[2] = GLOBAL_MENU_INFO.menu_results[0] + 1
                 ELSE IF GLOBAL_MENU_INFO.menu_results[0] < 0
                 THEN GLOBAL_MENU_INFO.return_val = -1
                 ELSE GLOBAL_MENU_INFO.return_val = -2

\* A female monster chosen after the gender menu and added at index 0.
C26_Witness ==
    /\ RecruitRun
    /\ menuPhase = "done"
    /\ menuGame.recruit = << 0, 602 >>
    /\ script_return_val = 0
    /\ GLOBAL_MENU_INFO.menu_results[2] = 2

ItemEffectCalled == efCall.fn = "CustomApplyItemEffect"

MoveEffectCalled == efCall.fn = "CustomApplyMoveEffect"

Smaller(a, b) == IF a < b THEN a ELSE b

\* C28: ItemElixir, run for a monster, leaves each of its four moves with
\* pp = min(old pp + 10, GetMaxPp(move)), so that no PP is above its maximum,
\* and changes nothing else; run for a target that is not a monster it
\* changes nothing.
C28_ElixirRefillsTenUpToMax ==
    (ItemEffectCalled /\ efCall.id = ITEM_MAX_ELIXIR) =>
        /\ efUser = efCall.user
        /\ IF efCall.target.type = "ENTITY_MONSTER"
           THEN /\ \A i \in 1..4 :
                     /\ efTarget.moves[i].pp =
                          Smaller(efCall.target.moves[i].pp + 10,
                                  GetMaxPp(efCall.target.moves[i]))
                     /\ efTarget.moves[i].pp <= GetMaxPp(efTarget.moves[i])
                     /\ efTarget.moves[i].id = efCall.target.moves[i].id
                /\ [ efTarget EXCEPT !.moves = efCall.target.moves ] = efCall.target
           ELSE efTarget = efCall.target

\* A monster whose moves had 0 of 35, 30 of 35, 5 of 15 and 20 of 15 PP.
C28_Witness ==
    /\ ItemEffectCalled /\ efCall.id = ITEM_MAX_ELIXIR
    /\ efCall.target.type = "ENTITY_MONSTER"
    /\ efCall.target.moves = << [ id |-> 1, pp |-> 0 ], [ id |-> 1, pp |-> 30 ],
                                [ id |-> 2, pp |-> 5 ], [ id |-> 2, pp |-> 20 ] >>
    /\ efTarget.moves = << [ id |-> 1, pp |-> 10 ], [ id |-> 1, pp |-> 35 ],
                           [ id |-> 2, pp |-> 15 ], [ id |-> 2, pp |-> 15 ] >>

C30_BodyPressUsesDefAndRestoresAtk ==
    MoveEffectCalled =>
        /\ efUser.atk = efCall.user.atk
        /\ efUser = efCall.user
        /\ efTarget = efCall.target
        /\ efRet <=> efCall.id = MOVE_SCRATCH
        /\ IF efCall.id = MOVE_SCRATCH
           THEN /\ efData = [ efCall.data EXCEPT !.out_dealt_damage = efData.out_dealt_damage ]
                /\ IF efCall.user.type = "ENTITY_MONSTER"
                   THEN /\ Len(efDamage) = 1
                        /\ efDamage[1].atk = efCall.user.def
                        /\ efData.out_dealt_damage <=> efCall.dd.result # 0
                   ELSE /\ efDamage = << >>
                        /\ ~efData.out_dealt_damage
           ELSE /\ efData = efCall.data
                /\ efDamage = << >>

\* Scratch used by a monster with atk 255 and def 40: DealDamage ran with
\* atk 40, lowered it during the call and dealt 37; atk is 255 again and the
\* flag the caller had left false is true.
C30_Witness ==
    /\ MoveEffectCalled
    /\ efCall.id = MOVE_SCRATCH
    /\ efCall.user.type = "ENTITY_MONSTER"
    /\ efCall.user.atk = 255 /\ efCall.user.def = 40
    /\ efCall.dd = [ result |-> 37, lowers |-> TRUE ]
    /\ ~efCall.data.out_dealt_damage
    /\ efDamage = << [ atk |-> 40, def |-> 40 ] >>
    /\ efUser.atk = 255
    /\ efData.out_dealt_damage
    /\ efRet

(***************************************************************************)
(* move_effect_input around the move-effect handler.                       *)
(***************************************************************************)
MoveHandlerEntered ==
    tramp = "move_effect" /\ stats.calls > 0 /\ stats.callee = "CustomApplyMoveEffect"

DivertedMoveEffect ==
    tramp = "move_effect" /\ Exited /\ exitAt = "ApplyMoveEffectJumpAddr"

\* C31: in every invocation of cotInternalTrampolineApplyMoveEffect, when the
\* handler is entered move_effect_input holds move_id = r6 at hook entry,
\* item_id = r7 at hook entry and out_dealt_damage = 0, whatever an earlier
\* invocation left there; on the DIVERT exit r10 holds the address of
\* out_dealt_damage and the word there is the value the handler wrote.
C31_InputFilledAndResultHandedOver ==
    /\ MoveHandlerEntered =>
         /\ stats.memAtCall[move_effect_input] = entry.regs["r6"]
         /\ stats.memAtCall[move_effect_input + 4] = entry.regs["r7"]
         /\ stats.memAtCall[move_effect_input + 8] = 0
    /\ DivertedMoveEffect =>
         /\ regs["r10"] = move_effect_input + 8
         /\ stats.wrote \in { 0, 1 }
         /\ mem[regs["r10"]] = stats.wrote

\* A diverted invocation that started with out_dealt_damage left at 1 by an
\* earlier one, with non-zero move and item IDs, whose handler wrote 1.
C31_Witness ==
    /\ DivertedMoveEffect
    /\ MoveHandlerEntered
    /\ entry.mem[move_effect_input + 8] = 1
    /\ entry.regs["r6"] # 0
    /\ entry.regs["r7"] # entry.regs["r6"]
    /\ stats.wrote = 1

\* The same start, but the handler reports that no damage was dealt.
C31_WitnessCleared ==
    /\ DivertedMoveEffect
    /\ entry.mem[move_effect_input + 8] = 1
    /\ stats.wrote = 0

(***************************************************************************)
(* The trampolines that keep the registers in reg_backup, with a hook      *)
(* firing inside a handler.                                                *)
(***************************************************************************)
BackedUp(t) ==
    IF t = "item_effect_reg_backup"
    THEN { ItemBackedUp[k] : k \in 1..Len(ItemBackedUp) }
    ELSE { MoveBackedUp[k] : k \in 1..Len(MoveBackedUp) }

\* The outermost invocation has left its trampoline.
OuterExited == tramp \in BackupTrampolines /\ Exited /\ nest = << >>

ContinuedFromBackup == exitAt \in { "ApplyItemEffect+4", "ApplyMoveEffectHookAddr+4" }

\* The backed-up registers an exit is expected to hand back unchanged: all
\* of them on the exit that resumes the hooked function, except r1, which
\* the displaced mov r1, #1 of the move-effect hook sets; on the exit that
\* takes the function's place, all but the ones a caller expects a call to
\* clobber.
ExpectedBack(t) ==
    IF ContinuedFromBackup
    THEN BackedUp(t) \ (IF t = "move_effect_reg_backup" THEN { "r1" } ELSE {})
    ELSE BackedUp(t) \ { "r0", "r1", "r2", "r3", "r12" }

\* C32: when a hook fired inside the outer handler and ran to completion
\* before that handler returned, the outer invocation of a reg_backup
\* trampoline still exits with every backed-up register (lr included, and
\* sp for the move-effect trampoline) equal to its value at the outer entry.
C32_OuterRegistersSurviveInnerHook ==
    (OuterExited /\ stats.nested > 0) =>
        \A r \in ExpectedBack(tramp) : regs[r] = entry.regs[r]

\* Without a hook inside the handler every invocation does exit with these
\* registers as they were at entry.
C32_RegistersSurviveWithoutInnerHook ==
    (OuterExited /\ stats.nested = 0) =>
        \A r \in ExpectedBack(tramp) : regs[r] = entry.regs[r]

\* The outer invocation resumes the hooked function with the lr the inner
\* invocation was entered with.
C32_OuterLeavesWithInnerRegisters ==
    /\ OuterExited
    /\ stats.nested > 0
    /\ ContinuedFromBackup
    /\ regs["lr"] # entry.regs["lr"]
    /\ regs["lr"] = mem[reg_backup + 4 * (Len(IF tramp = "item_effect_reg_backup"
                                               THEN ItemBackedUp ELSE MoveBackedUp) - 1)]

(***************************************************************************)
(* The special process ID as an unsigned word.                             *)
(***************************************************************************)
SpecialProcessExited == tramp = "special_process" /\ Exited

\* C33: for every value of the special process ID in r1 (a uint32_t), the
\* trampoline routes the call to CustomScriptSpecialProcessCall if and only
\* if the ID, read as an unsigned integer, is at least 100.
C33_RoutedIffUnsignedAtLeastHundred ==
    SpecialProcessExited =>
        (exitAt = "CustomScriptSpecialProcessCall" <=> entry.regs["r1"] >= 100)

\* What cmp / bge decides: the same test on the ID read as a signed integer.
C33_RoutedIffSignedAtLeastHundred ==
    SpecialProcessExited =>
        (exitAt = "CustomScriptSpecialProcessCall" <=> ToSigned(entry.regs["r1"]) >= 100)

\* An ID with the top bit set has been sent to the game's own function.
C33_TopBitIdRunsOriginal ==
    /\ SpecialProcessExited
    /\ entry.regs["r1"] >= Half
    /\ exitAt = "ScriptSpecialProcessCall+4"
    /\ stats.calls = 0

(***************************************************************************)
(* Properties of CheckBeastBoost, stated for SpecBeastBoost.               *)
(***************************************************************************)
BeastBoostCalled == bbCall # NoBeastCall

\* The value of the user's stat s.
StatValue(m, s) ==
    CASE s = STAT_ATK    -> m.atk
      [] s = STAT_DEF    -> m.def
      [] s = STAT_SP_ATK -> m.sp_atk
      [] s = STAT_SP_DEF -> m.sp_def

FourStats == { STAT_ATK, STAT_DEF, STAT_SP_ATK, STAT_SP_DEF }

\* The stats of m whose value no other stat exceeds.
TopStats(m) ==
    { s \in FourStats : \A o \in FourStats : StatValue(m, o) <= StatValue(m, s) }

\* The stat a boost call raises.
BoostedStat(b) ==
    CASE b.fn = "BoostOffensiveStat" /\ b.stat_idx = 0 -> STAT_ATK
      [] b.fn = "BoostDefensiveStat" /\ b.stat_idx = 0 -> STAT_DEF
      [] b.fn = "BoostOffensiveStat" /\ b.stat_idx = 1 -> STAT_SP_ATK
      [] b.fn = "BoostDefensiveStat" /\ b.stat_idx = 1 -> STAT_SP_DEF

BeastBoostDue ==
    /\ bbCall.user.type # "NULL"
    /\ bbCall.user.type = "ENTITY_MONSTER"
    /\ ABILITY_UNNAMED_0x74 \in { bbCall.user.ability1, bbCall.user.ability2 }
    /\ ~bbCall.target_valid

\* C34: CheckBeastBoost does nothing unless the user is a monster having
\* ability 0x74 and the target is no longer valid; when it activates it
\* applies exactly one one-stage boost, to a stat whose value is the maximum
\* of atk, def, sp_atk and sp_def, and at the random pick
\* highest_stats[0 .. tied_stat_count-1] holds exactly the stats tied for
\* that maximum, with no STAT_NONE among them.
C34_BeastBoostRaisesOneTopStat ==
    BeastBoostCalled =>
        IF ~BeastBoostDue
        THEN ~bbOut.logged /\ bbOut.boosts = << >>
        ELSE /\ Len(bbOut.boosts) = 1
             /\ bbOut.boosts[1].stages = 1
             /\ BoostedStat(bbOut.boosts[1]) \in TopStats(bbCall.user)
             /\ bbOut.tied_stat_count = Cardinality(TopStats(bbCall.user))
             /\ { bbOut.highest_stats[i] : i \in 0..(bbOut.tied_stat_count - 1) }
                    = TopStats(bbCall.user)
             /\ \A i \in 0..(bbOut.tied_stat_count - 1) :
                    bbOut.highest_stats[i] # STAT_NONE

\* Witness of C34: def and sp_def tie for the maximum, above atk and sp_atk
\* which tie with each other, and the boost went to sp_def.
C34_Witness ==
    /\ BeastBoostCalled
    /\ BeastBoostDue
    /\ bbCall.user.atk = bbCall.user.sp_atk
    /\ bbCall.user.def = bbCall.user.sp_def
    /\ bbCall.user.def > bbCall.user.atk
    /\ bbOut.tied_stat_count = 2
    /\ Len(bbOut.boosts) = 1
    /\ BoostedStat(bbOut.boosts[1]) = STAT_SP_DEF

\* All four stats tie and the last one is picked.
C34_WitnessFourTied ==
    /\ BeastBoostDue
    /\ bbOut.tied_stat_count = 4
    /\ bbOut.selected_stat = STAT_SP_DEF

(***************************************************************************)
(* How often the Rust handler is asked in one item-effect dispatch.        *)
(***************************************************************************)
ItemDispatchReturned == Returned({ "cotInternalDispatchApplyItemEffect" })

\* Calls of eos_rs_apply_item_effect the dispatcher made itself.
RustAskedByDispatcher ==
    { i \in 1..Len(chainLog) : chainLog[i].chain = "eos_rs_apply_item_effect" }

\* Calls of eos_rs_apply_item_effect made by CustomApplyItemEffect.
RustAskedByHandler ==
    { i \in 1..Len(chainLog) :
        /\ chainLog[i].chain = "CustomApplyItemEffect"
        /\ chainLog[i].inner # << >> }

\* C35: within one item-effect hook invocation in a COT_RUST build each
\* handler chain is consulted at most once: eos_rs_apply_item_effect is
\* called at most one time, whatever the C handler and the Rust handler
\* return.
C35_RustHandlerAskedAtMostOnce ==
    (ItemDispatchReturned /\ build.rust) =>
        Cardinality(RustAskedByDispatcher) + Cardinality(RustAskedByHandler) <= 1

\* When CustomApplyItemEffect does not ask the Rust handler itself, the
\* dispatcher asks it at most once, and the C handler is asked once.
C35_DispatcherAsksEachChainOnce ==
    (ItemDispatchReturned /\ build.rust) =>
        /\ Cardinality(RustAskedByDispatcher) <= 1
        /\ Cardinality({ i \in 1..Len(chainLog) :
                           chainLog[i].chain = "CustomApplyItemEffect" }) = 1

\* The C handler passed the item on to the Rust handler, which declined,
\* and the dispatcher asked the Rust handler again.
C35_RustHandlerAskedTwice ==
    /\ ItemDispatchReturned
    /\ build.rust
    /\ RustAskedByHandler = { 1 }
    /\ ~chainLog[1].handled
    /\ RustAskedByDispatcher = { 2 }

(***************************************************************************)
(* Properties of customGetMovePower, stated for SpecMovePowerText.         *)
(***************************************************************************)
MovePowerRolled == fmCall # 0

\* C36: for every rolledPower RandRange(1, 100) can return, the text
\* formatted from "Rolled move power %d!" fits, with its terminating NUL,
\* in messageBuffer: no byte outside the buffer is written.
C36_TextFitsMessageBuffer ==
    MovePowerRolled => fmBeyond = << >>

\* What is stored: the eighteen characters before %d, the one or two digits
\* of the power, "!" and NUL; all that lies behind offset 19 is outside.
C36_TextIsOneOrTwoBytesTooLong ==
    MovePowerRolled =>
        /\ fmRet \in 1..99
        /\ Len(fmLog) + 1 = MessageBufferSize + (IF fmRet < 10 THEN 1 ELSE 2)
        /\ Len(fmBeyond) = (IF fmRet < 10 THEN 1 ELSE 2)
        /\ fmBeyond[Len(fmBeyond)] = NUL
        /\ \A k \in 0..(MessageBufferSize - 1) : fmBuffer[k] = fmLog[k + 1]

\* For a power of 57 the digits fill the buffer to its last byte and "!"
\* and NUL are stored behind it.
C36_TextRunsPastMessageBuffer ==
    /\ MovePowerRolled
    /\ fmRet = 57
    /\ fmBuffer[MessageBufferSize - 2] = "5"
    /\ fmBuffer[MessageBufferSize - 1] = "7"
    /\ fmBeyond = << "!", NUL >>

=============================================================================
